---- MODULE Spec2Model ----
(***************************************************************************)
(* Model of the GA notification agent of flyfun-apps:                      *)
(*   shared/ga_notification_agent/parser.py  (NotificationParser)          *)
(*   shared/ga_notification_agent/models.py  (NotificationRule,            *)
(*       ParsedNotificationRules, HassleScore)                             *)
(* with the agent graph of shared/aviation_agent/graph.py (AgentSpec) and  *)
(* the priority engine of shared/prioritization (PrioritySpec).            *)
(*                                                                         *)
(* A Python str is a sequence of one-character strings.  The regular       *)
(* expressions of the parser are written as syntax trees, one node per     *)
(* construct of the source pattern, and matched by a backtracking matcher  *)
(* that yields the matches in the priority order of Python's re module     *)
(* (alternatives left to right, quantifiers greedy).  Optional values are  *)
(* None (the empty tuple) or Some(v) (a one-element tuple).  Floats with   *)
(* two decimals (confidence, score) are counted in hundredths.             *)
(***************************************************************************)
EXTENDS Integers, Sequences, FiniteSets, TLC

\* ------------------------------------------------------------------------
\* Python values
\* ------------------------------------------------------------------------

None == <<>>

Some(v) == <<v>>

\* str.lower() / re.IGNORECASE on the letters of the model's alphabet
LowerMap ==
  [A |-> "a", B |-> "b", C |-> "c", D |-> "d", E |-> "e", F |-> "f", G |-> "g",
   H |-> "h", I |-> "i", J |-> "j", K |-> "k", L |-> "l", M |-> "m", N |-> "n",
   O |-> "o", P |-> "p", Q |-> "q", R |-> "r", S |-> "s", T |-> "t", U |-> "u",
   V |-> "v", W |-> "w", X |-> "x", Y |-> "y", Z |-> "z"]

Lower(c) == IF c \in DOMAIN LowerMap THEN LowerMap[c] ELSE c

LowerStr(s) == [i \in 1..Len(s) |-> Lower(s[i])]

\* \s
Space == {" "}

\* \d, in value order
Digits == <<"0", "1", "2", "3", "4", "5", "6", "7", "8", "9">>

Digit == {Digits[i] : i \in 1..10}

\* \w
WordChar == DOMAIN LowerMap \cup {LowerMap[c] : c \in DOMAIN LowerMap} \cup Digit \cup {"_"}

\* str.strip()
Strip(s) ==
  LET keep == {i \in 1..Len(s) : s[i] \notin Space}
  IN IF keep = {} THEN <<>>
     ELSE SubSeq(s, CHOOSE i \in keep : \A j \in keep : i <= j,
                    CHOOSE i \in keep : \A j \in keep : j <= i)

\* int(str) of a run of digits
RECURSIVE int(_)
int(s) ==
  IF s = <<>> THEN 0
  ELSE 10 * int(SubSeq(s, 1, Len(s) - 1))
       + ((CHOOSE k \in 1..10 : Digits[k] = s[Len(s)]) - 1)

\* str(int) of a non-negative integer
RECURSIVE str(_)
str(n) == IF n < 10 THEN <<Digits[n + 1]>> ELSE str(n \div 10) \o <<Digits[(n % 10) + 1]>>

\* ------------------------------------------------------------------------
\* Regular expressions (module re)
\* ------------------------------------------------------------------------

Lit(s) == [op |-> "lit", s |-> LowerStr(s)]

Set(chars) == [op |-> "set", chars |-> chars]

Cat(rs) == [op |-> "cat", rs |-> rs]

Alt(rs) == [op |-> "alt", rs |-> rs]

Opt(r) == [op |-> "opt", r |-> r]

Star(r) == [op |-> "star", r |-> r]

Plus(r) == Cat(<<r, Star(r)>>)

Grp(n, r) == [op |-> "grp", n |-> n, r |-> r]

Wb == [op |-> "wb"]

NoGroups == <<None, None, None>>

LitAt(s, t, p) ==
  /\ p + Len(s) - 1 <= Len(t)
  /\ \A k \in 1..Len(s) : t[p + k - 1] = s[k]

\* \b at cursor p (before t[p])
IsBoundary(t, p) ==
  LET before == p > 1 /\ t[p - 1] \in WordChar
      after == p <= Len(t) /\ t[p] \in WordChar
  IN before # after

\* All ways r matches t from cursor p, in the order the backtracking matcher
\* tries them: a sequence of [pos, g] (end cursor, capture spans).
RECURSIVE Match(_, _, _, _), MatchCat(_, _, _, _), MatchAlt(_, _, _, _, _), MatchEach(_, _, _, _)
Match(r, t, p, g) ==
  CASE r.op = "lit" ->
         IF LitAt(r.s, t, p) THEN <<[pos |-> p + Len(r.s), g |-> g]>> ELSE <<>>
    [] r.op = "set" ->
         IF p <= Len(t) /\ t[p] \in r.chars THEN <<[pos |-> p + 1, g |-> g]>> ELSE <<>>
    [] r.op = "wb" ->
         IF IsBoundary(t, p) THEN <<[pos |-> p, g |-> g]>> ELSE <<>>
    [] r.op = "cat" -> MatchCat(r.rs, 1, t, <<[pos |-> p, g |-> g]>>)
    [] r.op = "alt" -> MatchAlt(r.rs, 1, t, p, g)
    [] r.op = "opt" -> Match(r.r, t, p, g) \o <<[pos |-> p, g |-> g]>>
    [] r.op = "star" ->
         MatchEach(r, t, SelectSeq(Match(r.r, t, p, g), LAMBDA m : m.pos > p), 1)
           \o <<[pos |-> p, g |-> g]>>
    [] r.op = "grp" ->
         LET ms == Match(r.r, t, p, g)
         IN [i \in 1..Len(ms) |->
               [pos |-> ms[i].pos, g |-> [ms[i].g EXCEPT ![r.n] = <<p, ms[i].pos>>]]]

MatchCat(rs, k, t, ms) ==
  IF k > Len(rs) \/ ms = <<>> THEN ms ELSE MatchCat(rs, k + 1, t, MatchEach(rs[k], t, ms, 1))

MatchAlt(rs, k, t, p, g) ==
  IF k > Len(rs) THEN <<>> ELSE Match(rs[k], t, p, g) \o MatchAlt(rs, k + 1, t, p, g)

MatchEach(r, t, ms, j) ==
  IF j > Len(ms) THEN <<>> ELSE Match(r, t, ms[j].pos, ms[j].g) \o MatchEach(r, t, ms, j + 1)

\* A compiled pattern: re.compile(r, re.IGNORECASE) or re.compile(r)
Compile(r, ignorecase) == [re |-> r, ignorecase |-> ignorecase]

Subject(pattern, t) == IF pattern.ignorecase THEN LowerStr(t) ELSE t

\* The leftmost match at or after cursor p: None or Some([start, end, g])
RECURSIVE SearchFrom(_, _, _)
SearchFrom(r, t, p) ==
  IF p > Len(t) + 1 THEN None
  ELSE LET ms == Match(r, t, p, NoGroups)
       IN IF Len(ms) > 0 THEN Some([start |-> p, end |-> ms[1].pos, g |-> ms[1].g])
          ELSE SearchFrom(r, t, p + 1)

\* pattern.search(text)
search(pattern, t) == SearchFrom(pattern.re, Subject(pattern, t), 1)

\* pattern.finditer(text): the non-overlapping matches, left to right
RECURSIVE FindFrom(_, _, _)
FindFrom(r, t, p) ==
  LET m == SearchFrom(r, t, p)
  IN IF m = None THEN <<>>
     ELSE <<m[1]>> \o FindFrom(r, t, IF m[1].end > m[1].start THEN m[1].end ELSE m[1].end + 1)

finditer(pattern, t) == FindFrom(pattern.re, Subject(pattern, t), 1)

\* match.group(0)
group0(m, t) == SubSeq(t, m.start, m.end - 1)

\* match.group(n): None when the group took no part in the match
group(m, t, n) == IF m.g[n] = None THEN None ELSE Some(SubSeq(t, m.g[n][1], m.g[n][2] - 1))

\* re.sub(r, '', t)
RECURSIVE Remove(_, _, _)
Remove(ms, t, p) ==
  IF ms = <<>> THEN SubSeq(t, p, Len(t))
  ELSE SubSeq(t, p, ms[1].start - 1) \o Remove(Tail(ms), t, ms[1].end)

sub(pattern, t) == Remove(finditer(pattern, t), t, 1)

\* ------------------------------------------------------------------------
\* NotificationParser: the patterns
\* ------------------------------------------------------------------------

Ws0 == Star(Set(Space))

Ws1 == Plus(Set(Space))

Num(n) == Grp(n, Plus(Set(Digit)))

\* (?:PPR|PN|PPR\s*PN)
PprPn == Alt(<<Lit(<<"P","P","R">>), Lit(<<"P","N">>), Cat(<<Lit(<<"P","P","R">>), Ws0, Lit(<<"P","N">>)>>)>>)

\* (?:HR?S?|HOURS?)
HrUnit ==
  Alt(<<Cat(<<Lit(<<"H">>), Opt(Lit(<<"R">>)), Opt(Lit(<<"S">>))>>),
        Cat(<<Lit(<<"H","O","U","R">>), Opt(Lit(<<"S">>))>>)>>)

HOURS_PATTERN ==
  Compile(
    Alt(<<Cat(<<PprPn, Ws0, Opt(Cat(<<Lit(<<"M","N","M">>), Ws1>>)), Num(1), Ws0, HrUnit>>),
          Cat(<<Num(2), Ws0, HrUnit, Ws0, Alt(<<Lit(<<"P","P","R">>), Lit(<<"P","N">>)>>), Ws0,
                Opt(Lit(<<"M","N","M">>))>>),
          Cat(<<Num(3), Ws0, HrUnit, Ws1, Opt(Cat(<<Lit(<<"p","r","i","o","r">>), Ws1>>)),
                Alt(<<Lit(<<"n","o","t","i","c","e">>), Lit(<<"a","d","v","a","n","c","e">>), Lit(<<"P","N">>)>>)>>)>>),
    TRUE)

\* MON(?:DAY)?|TUE(?:SDAY)?|WED(?:NESDAY)?|THU(?:RSDAY)?|FRI(?:DAY)?|SAT(?:URDAY)?|SUN(?:DAY)?
DayNames ==
  <<Cat(<<Lit(<<"M","O","N">>), Opt(Lit(<<"D","A","Y">>))>>),
    Cat(<<Lit(<<"T","U","E">>), Opt(Lit(<<"S","D","A","Y">>))>>),
    Cat(<<Lit(<<"W","E","D">>), Opt(Lit(<<"N","E","S","D","A","Y">>))>>),
    Cat(<<Lit(<<"T","H","U">>), Opt(Lit(<<"R","S","D","A","Y">>))>>),
    Cat(<<Lit(<<"F","R","I">>), Opt(Lit(<<"D","A","Y">>))>>),
    Cat(<<Lit(<<"S","A","T">>), Opt(Lit(<<"U","R","D","A","Y">>))>>),
    Cat(<<Lit(<<"S","U","N">>), Opt(Lit(<<"D","A","Y">>))>>)>>

\* WEEK-?END|WEEK-?DAYS?
DayCompounds ==
  <<Cat(<<Lit(<<"W","E","E","K">>), Opt(Lit(<<"-">>)), Lit(<<"E","N","D">>)>>),
    Cat(<<Lit(<<"W","E","E","K">>), Opt(Lit(<<"-">>)), Lit(<<"D","A","Y">>), Opt(Lit(<<"S">>))>>)>>

\* HOL(?:IDAYS?)?
Hol == Cat(<<Lit(<<"H","O","L">>), Opt(Cat(<<Lit(<<"I","D","A","Y">>), Opt(Lit(<<"S">>))>>))>>)

\* [-–]: the en dash is outside the model's alphabet
Dash == {"-"}

WEEKDAY_HOURS_PATTERN ==
  Compile(
    Cat(<<Grp(1, Alt(DayNames \o DayCompounds \o <<Hol>>)),
          Opt(Cat(<<Ws0, Set(Dash), Ws0, Grp(2, Alt(DayNames \o <<Hol>>))>>)),
          Ws0, Set({",", ":"}), Ws0,
          Opt(PprPn), Ws0, Opt(Cat(<<Lit(<<"M","N","M">>), Ws1>>)), Num(3), Ws0, HrUnit>>),
    TRUE)

H24_PATTERN == Compile(Cat(<<Wb, Lit(<<"H","2","4">>), Wb>>), TRUE)

ON_REQUEST_PATTERN ==
  Compile(
    Cat(<<Wb,
          Alt(<<Lit(<<"O","/","R">>),
                Cat(<<Lit(<<"o","n">>), Ws1, Lit(<<"r","e","q","u","e","s","t">>)>>),
                Cat(<<Lit(<<"b","y">>), Ws1, Opt(Cat(<<Lit(<<"p","r","i","o","r">>), Ws1>>)), Lit(<<"a","r","r","a","n","g","e","m","e","n","t">>)>>),
                Cat(<<Lit(<<"s","u","r">>), Ws1, Lit(<<"d","e","m","a","n","d","e">>)>>),
                Cat(<<Lit(<<"s","u","b","j","e","c","t">>), Ws1, Lit(<<"t","o">>), Ws1,
                      Alt(<<Lit(<<"n","o","t","i","f","i","e","d">>), Lit(<<"n","o","t","i","c","e">>)>>)>>)>>),
          Wb>>),
    TRUE)

AS_AD_HOURS_PATTERN ==
  Compile(
    Cat(<<Wb,
          Alt(<<Cat(<<Lit(<<"a","s">>), Ws1, Lit(<<"A","D">>), Ws1,
                      Alt(<<Cat(<<Lit(<<"h","o","u","r">>), Opt(Lit(<<"s">>))>>), Lit(<<"H","R">>)>>)>>),
                Cat(<<Lit(<<"A","D">>), Ws1, Lit(<<"O","P","R">>), Ws1, Lit(<<"H","R">>)>>),
                Cat(<<Lit(<<"H","R">>), Ws1, Lit(<<"A","D">>)>>),
                Cat(<<Lit(<<"A","S">>), Ws1, Lit(<<"A","D">>), Ws1, Lit(<<"H","R">>)>>)>>),
          Wb>>),
    TRUE)

BUSINESS_DAY_PATTERN ==
  Compile(
    Cat(<<Opt(Cat(<<Lit(<<"l","a","s","t">>), Ws1>>)),
          Alt(<<Lit(<<"w","o","r","k","i","n","g">>), Lit(<<"b","u","s","i","n","e","s","s">>)>>), Ws1, Lit(<<"d","a","y">>), Ws1,
          Opt(Cat(<<Lit(<<"b","e","f","o","r","e">>), Ws1>>)),
          Opt(Grp(1, Cat(<<Set(Digit), Set(Digit), Set(Digit), Set(Digit)>>)))>>),
    TRUE)

SCHENGEN_PATTERN ==
  Compile(
    Cat(<<Wb,
          Alt(<<Cat(<<Lit(<<"e","x","t","r","a">>), Opt(Set({"-", " "})), Lit(<<"s","c","h","e","n","g","e","n">>)>>),
                Cat(<<Lit(<<"n","o","n">>), Opt(Set({"-", " "})), Lit(<<"s","c","h","e","n","g","e","n">>)>>),
                Cat(<<Lit(<<"o","u","t","s","i","d","e">>), Ws1, Opt(Cat(<<Lit(<<"t","h","e">>), Ws1>>)), Lit(<<"s","c","h","e","n","g","e","n">>)>>)>>),
          Wb>>),
    TRUE)

INTRA_SCHENGEN_PATTERN ==
  Compile(
    Cat(<<Wb,
          Alt(<<Cat(<<Lit(<<"i","n","t","r","a">>), Opt(Set({"-", " "})), Lit(<<"s","c","h","e","n","g","e","n">>)>>),
                Cat(<<Lit(<<"w","i","t","h","i","n">>), Ws1, Opt(Cat(<<Lit(<<"t","h","e">>), Ws1>>)), Lit(<<"s","c","h","e","n","g","e","n">>)>>),
                Cat(<<Lit(<<"s","c","h","e","n","g","e","n">>), Ws1,
                      Alt(<<Cat(<<Lit(<<"f","l","i","g","h","t">>), Opt(Lit(<<"s">>))>>), Lit(<<"o","n","l","y">>)>>)>>)>>),
          Wb>>),
    TRUE)

\* 'hol' in day_str
HolSubstring == Compile(Lit(<<"h","o","l">>), FALSE)

\* \s*(?:and\s+)?hol(?:idays?)?  (re.sub in _parse_day)
HolSuffix ==
  Compile(
    Cat(<<Ws0, Opt(Cat(<<Lit(<<"a","n","d">>), Ws1>>)), Lit(<<"h","o","l">>),
          Opt(Cat(<<Lit(<<"i","d","a","y">>), Opt(Lit(<<"s">>))>>))>>),
    TRUE)

DAY_MAP ==
  <<<<<<"m","o","n">>, <<0>>>>, <<<<"m","o","n","d","a","y">>, <<0>>>>,
    <<<<"t","u","e">>, <<1>>>>, <<<<"t","u","e","s","d","a","y">>, <<1>>>>,
    <<<<"w","e","d">>, <<2>>>>, <<<<"w","e","d","n","e","s","d","a","y">>, <<2>>>>,
    <<<<"t","h","u">>, <<3>>>>, <<<<"t","h","u","r","s","d","a","y">>, <<3>>>>,
    <<<<"f","r","i">>, <<4>>>>, <<<<"f","r","i","d","a","y">>, <<4>>>>,
    <<<<"s","a","t">>, <<5>>>>, <<<<"s","a","t","u","r","d","a","y">>, <<5>>>>,
    <<<<"s","u","n">>, <<6>>>>, <<<<"s","u","n","d","a","y">>, <<6>>>>,
    <<<<"w","e","e","k","d","a","y">>, <<0, 4>>>>, <<<<"w","e","e","k","d","a","y","s">>, <<0, 4>>>>,
    <<<<"w","e","e","k","-","e","n","d">>, <<5, 6>>>>, <<<<"w","e","e","k","e","n","d">>, <<5, 6>>>>>>


\* DAY_MAP[key]: None when key is no key of the table
DayMapGet(key) ==
  LET hits == {i \in 1..Len(DAY_MAP) : DAY_MAP[i][1] = key}
  IN IF hits = {} THEN None ELSE Some(DAY_MAP[CHOOSE i \in hits : TRUE][2])

\* ------------------------------------------------------------------------
\* models.py
\* ------------------------------------------------------------------------

\* Field(..., ge=0, le=6) of weekday_start / weekday_end
WeekdayMin == 0

WeekdayMax == 6

\* Field(1.0, ge=0.0, le=1.0) of confidence and Field(..., ge=0.0, le=1.0) of score,
\* in hundredths
UnitMax == 100

\* The fields of a NotificationRule and their defaults
RuleDefaults ==
  [rule_type |-> "", notification_type |-> "",
   hours_notice |-> None,
   weekday_start |-> None, weekday_end |-> None, includes_holidays |-> FALSE,
   business_day_offset |-> None, specific_time |-> None,
   hours_start |-> None, hours_end |-> None,
   is_obligatory |-> TRUE, schengen_only |-> FALSE, non_schengen_only |-> FALSE,
   conditions |-> None,
   raw_text |-> None, confidence |-> UnitMax, extraction_method |-> "regex"]

\* pydantic's validation of the constrained fields
RuleValid(r) ==
  /\ r.weekday_start = None \/ r.weekday_start[1] \in WeekdayMin..WeekdayMax
  /\ r.weekday_end = None \/ r.weekday_end[1] \in WeekdayMin..WeekdayMax
  /\ r.confidence \in 0..UnitMax

\* NotificationRule(**fields): the rule, or the ValidationError raised
NotificationRule(r) ==
  IF RuleValid(r) THEN [exc |-> "", rule |-> r] ELSE [exc |-> "ValidationError", rule |-> r]

\* ParsedNotificationRules(...); outcome "returned" or "raised"
ParsedNotificationRules(icao, rules, raw_text, std_field_id, warnings) ==
  [outcome |-> "returned", exc |-> "", icao |-> icao, rules |-> rules, raw_text |-> raw_text,
   source_std_field_id |-> std_field_id, parse_warnings |-> warnings]

Raised(exc) ==
  [outcome |-> "raised", exc |-> exc, icao |-> "", rules |-> <<>>, raw_text |-> <<>>,
   source_std_field_id |-> 0, parse_warnings |-> <<>>]

\* ------------------------------------------------------------------------
\* NotificationParser: extraction
\* ------------------------------------------------------------------------

\* day_result without the `if day_str in self.DAY_MAP` guard: DAY_MAP[day_str]
\* raises KeyError for a string that is no key
day_result_unguarded(result, includes_holidays) ==
  IF result # None
    THEN IF Len(result[1]) = 2
           THEN [start |-> Some(result[1][1]), end |-> Some(result[1][2]),
                 hol |-> includes_holidays, exc |-> ""]
           ELSE [start |-> Some(result[1][1]), end |-> None,
                 hol |-> includes_holidays, exc |-> ""]
    ELSE [start |-> None, end |-> None, hol |-> includes_holidays, exc |-> "KeyError"]

\* The return statements of _parse_day: [start, end, hol, exc], where result is
\* DAY_MAP.get(day_str) and exc names the exception raised, if any
day_result(result, includes_holidays) ==
  IF result # None
    THEN IF Len(result[1]) = 2
           THEN [start |-> Some(result[1][1]), end |-> Some(result[1][2]),
                 hol |-> includes_holidays, exc |-> ""]
           ELSE [start |-> Some(result[1][1]), end |-> None,
                 hol |-> includes_holidays, exc |-> ""]
    ELSE [start |-> None, end |-> None, hol |-> includes_holidays, exc |-> ""]

\* _parse_day after day_str = day_str.lower().strip()
parse_day_lowered(day_str) ==
  day_result(DayMapGet(Strip(sub(HolSuffix, day_str))), search(HolSubstring, day_str) # None)

\* _parse_day
parse_day(day_str) == parse_day_lowered(Strip(LowerStr(day_str)))

\* day_range that takes end_day from the start token even when an end token is given
day_range_end_from_start(from_start, from_end) ==
  IF from_end # None
    THEN [start_day |-> from_start.start, end_day |-> from_start.end,
          includes_hol |-> from_start.hol \/ from_end[1].hol,
          exc |-> IF from_start.exc # "" THEN from_start.exc ELSE from_end[1].exc]
    ELSE [start_day |-> from_start.start, end_day |-> from_start.end,
          includes_hol |-> from_start.hol, exc |-> from_start.exc]

\* if day_end_str: end_day, _, hol2 = ...; includes_hol = includes_hol or hol2
\* else: end_day = end_day_from_start
\* from_end is None when day_end_str is None or empty
day_range(from_start, from_end) ==
  IF from_end # None
    THEN [start_day |-> from_start.start, end_day |-> from_end[1].start,
          includes_hol |-> from_start.hol \/ from_end[1].hol,
          exc |-> IF from_start.exc # "" THEN from_start.exc ELSE from_end[1].exc]
    ELSE [start_day |-> from_start.start, end_day |-> from_start.end,
          includes_hol |-> from_start.hol, exc |-> from_start.exc]

\* The rule of one weekday match, from its days, hours and match.group(0)
weekday_rule_of(days, hours, raw_text) ==
  IF days.exc # "" THEN [exc |-> days.exc, rule |-> RuleDefaults]
  ELSE NotificationRule(
         [RuleDefaults EXCEPT !.rule_type = "ppr",
                              !.notification_type = "hours",
                              !.hours_notice = Some(hours),
                              !.weekday_start = days.start_day,
                              !.weekday_end = days.end_day,
                              !.includes_holidays = days.includes_hol,
                              !.raw_text = Some(raw_text),
                              !.confidence = 85])

\* self._parse_day(day_end_str) if day_end_str
parse_end_day(day_end_str) ==
  IF day_end_str # None /\ day_end_str # Some(<<>>) THEN Some(parse_day(day_end_str[1])) ELSE None

\* The body of the loop of _extract_weekday_rules for one match
weekday_rule(text, match) ==
  weekday_rule_of(
    day_range(parse_day(group(match, text, 1)[1]), parse_end_day(group(match, text, 2))),
    int(group(match, text, 3)[1]),
    group0(match, text))

\* Appends the rule built from one match; an exception ends the loop
append_rule(acc, one) ==
  IF acc.exc # "" THEN acc
  ELSE IF one.exc # "" THEN [exc |-> one.exc, rules |-> <<>>]
  ELSE [exc |-> "", rules |-> Append(acc.rules, one.rule)]

NoRules == [exc |-> "", rules |-> <<>>]

\* for match in self.WEEKDAY_HOURS_PATTERN.finditer(text): ...; rules.append(rule)
RECURSIVE weekday_rules_from(_, _, _, _)
weekday_rules_from(text, matches, k, acc) ==
  IF k > Len(matches) THEN acc
  ELSE weekday_rules_from(text, matches, k + 1, append_rule(acc, weekday_rule(text, matches[k])))

extract_weekday_rules(text) ==
  weekday_rules_from(text, finditer(WEEKDAY_HOURS_PATTERN, text), 1, NoRules)

\* The capture groups among 1, 2, 3 that hold a non-empty string
fired_groups(text, match) ==
  {n \in 1..3 : group(match, text, n) # None /\ group(match, text, n) # Some(<<>>)}

\* for group_num in [1, 2, 3]: if match.group(group_num): hours = int(...); break
first_group(text, match, fired) ==
  IF fired = {} THEN None
  ELSE Some(int(group(match, text, CHOOSE n \in fired : \A k \in fired : n <= k)[1]))

hours_group(text, match) == first_group(text, match, fired_groups(text, match))

\* The body of the first loop of _extract_hours_rules for one match with hours
hours_rule(text, match) ==
  NotificationRule(
    [RuleDefaults EXCEPT !.rule_type = "ppr",
                         !.notification_type = "hours",
                         !.hours_notice = hours_group(text, match),
                         !.raw_text = Some(group0(match, text)),
                         !.confidence = 80])

\* unique_rules that keeps the last rule of each hours_notice instead of the first
unique_rules_keep_last(rules) ==
  LET kept == SelectSeq([i \in 1..Len(rules) |-> i],
                        LAMBDA i : \A j \in (i + 1)..Len(rules) :
                                     rules[j].hours_notice # rules[i].hours_notice)
  IN [k \in 1..Len(kept) |-> rules[kept[k]]]

\* Deduplicate by hours: a rule is kept iff no earlier rule has its hours_notice
unique_rules(rules) ==
  LET kept == SelectSeq([i \in 1..Len(rules) |-> i],
                        LAMBDA i : \A j \in 1..(i - 1) :
                                     rules[j].hours_notice # rules[i].hours_notice)
  IN [k \in 1..Len(kept) |-> rules[kept[k]]]

\* The matches with hours: `if hours is None: continue`
with_hours(text, matches) == SelectSeq(matches, LAMBDA m : hours_group(text, m) # None)

deduplicated(built) == [exc |-> built.exc, rules |-> unique_rules(built.rules)]

\* for match in self.HOURS_PATTERN.finditer(text): ...; rules.append(rule)
RECURSIVE hours_rules_from(_, _, _, _)
hours_rules_from(text, matches, k, acc) ==
  IF k > Len(matches) THEN acc
  ELSE hours_rules_from(text, matches, k + 1, append_rule(acc, hours_rule(text, matches[k])))

extract_hours_rules(text) ==
  deduplicated(hours_rules_from(text, with_hours(text, finditer(HOURS_PATTERN, text)), 1, NoRules))

\* The body of the loop of _extract_business_day_rules for one match
business_day_rule(text, match) ==
  NotificationRule(
    [RuleDefaults EXCEPT !.rule_type = "ppr",
                         !.notification_type = "business_day",
                         !.business_day_offset = Some(-1),
                         !.specific_time = group(match, text, 1),
                         !.raw_text = Some(group0(match, text)),
                         !.confidence = 75])

\* for match in self.BUSINESS_DAY_PATTERN.finditer(text): ...; rules.append(rule)
RECURSIVE business_day_rules_from(_, _, _, _)
business_day_rules_from(text, matches, k, acc) ==
  IF k > Len(matches) THEN acc
  ELSE business_day_rules_from(text, matches, k + 1,
                               append_rule(acc, business_day_rule(text, matches[k])))

extract_business_day_rules(text) ==
  business_day_rules_from(text, finditer(BUSINESS_DAY_PATTERN, text), 1, NoRules)

\* _parse_with_llm: the LLM implementation is a stub, every path returns []
parse_with_llm(use_llm_fallback, icao, text) == <<>>

\* ------------------------------------------------------------------------
\* NotificationParser.parse
\* ------------------------------------------------------------------------

\* rules.append(NotificationRule(rule_type=CUSTOMS, ...)): a short-circuit rule
single_rule(notification_type, text, confidence) ==
  append_rule(NoRules,
              NotificationRule(
                [RuleDefaults EXCEPT !.rule_type = "customs",
                                     !.notification_type = notification_type,
                                     !.raw_text = Some(text),
                                     !.confidence = confidence]))

\* rules.extend(more), unless an exception was raised before
extend(acc, more) ==
  IF acc.exc # "" THEN acc ELSE [exc |-> more.exc, rules |-> acc.rules \o more.rules]

\* if not rules: hours_rules = self._extract_hours_rules(text)
or_hours_rules(acc, text) ==
  IF acc.exc = "" /\ acc.rules = <<>> THEN extend(acc, extract_hours_rules(text)) ELSE acc

\* layered_rules that extracts the general hours rules whether or not there are
\* weekday rules
layered_rules_always_hours(text) ==
  extend(extend(extract_weekday_rules(text), extract_hours_rules(text)),
         extract_business_day_rules(text))

\* The else branch of parse: weekday rules, else general hours; then business days
layered_rules(text) ==
  extend(or_hours_rules(extract_weekday_rules(text), text), extract_business_day_rules(text))

\* self.HOURS_PATTERN.search(text)
has_hours(text) == search(HOURS_PATTERN, text) # None

\* extract_rules with the on-request check moved before the H24 check
extract_rules_on_request_first(text) ==
  IF search(ON_REQUEST_PATTERN, text) # None /\ ~has_hours(text)
    THEN single_rule("on_request", text, 90)
  ELSE IF search(H24_PATTERN, text) # None
    THEN single_rule("h24", text, 95)
  ELSE IF search(AS_AD_HOURS_PATTERN, text) # None /\ ~has_hours(text)
    THEN single_rule("as_ad_hours", text, 90)
  ELSE layered_rules(text)

\* extract_rules without the "not also hours" guard of the on-request check
extract_rules_no_hours_guard(text) ==
  IF search(H24_PATTERN, text) # None
    THEN single_rule("h24", text, 95)
  ELSE IF search(ON_REQUEST_PATTERN, text) # None
    THEN single_rule("on_request", text, 90)
  ELSE IF search(AS_AD_HOURS_PATTERN, text) # None /\ ~has_hours(text)
    THEN single_rule("as_ad_hours", text, 90)
  ELSE layered_rules(text)

\* extract_rules with the as-AD-hours check moved before the on-request check
extract_rules_as_ad_first(text) ==
  IF search(H24_PATTERN, text) # None
    THEN single_rule("h24", text, 95)
  ELSE IF search(AS_AD_HOURS_PATTERN, text) # None /\ ~has_hours(text)
    THEN single_rule("as_ad_hours", text, 90)
  ELSE IF search(ON_REQUEST_PATTERN, text) # None /\ ~has_hours(text)
    THEN single_rule("on_request", text, 90)
  ELSE layered_rules(text)

\* extract_rules with the layered extraction run after the H24 check as well
\* (`if` in place of the first `elif`, the other checks skipped for an H24 text)
extract_rules_h24_not_exclusive(text) ==
  IF search(H24_PATTERN, text) # None
    THEN extend(single_rule("h24", text, 95), layered_rules(text))
  ELSE IF search(ON_REQUEST_PATTERN, text) # None /\ ~has_hours(text)
    THEN single_rule("on_request", text, 90)
  ELSE IF search(AS_AD_HOURS_PATTERN, text) # None /\ ~has_hours(text)
    THEN single_rule("as_ad_hours", text, 90)
  ELSE layered_rules(text)

\* The if / elif / elif / else chain of parse
extract_rules(text) ==
  IF search(H24_PATTERN, text) # None
    THEN single_rule("h24", text, 95)
  ELSE IF search(ON_REQUEST_PATTERN, text) # None /\ ~has_hours(text)
    THEN single_rule("on_request", text, 90)
  ELSE IF search(AS_AD_HOURS_PATTERN, text) # None /\ ~has_hours(text)
    THEN single_rule("as_ad_hours", text, 90)
  ELSE layered_rules(text)

\* schengen_rule without the `and not is_schengen` of the first test
schengen_rule_no_exclusion(rule, is_non_schengen, is_schengen) ==
  IF is_non_schengen THEN [rule EXCEPT !.non_schengen_only = TRUE]
  ELSE IF is_schengen THEN [rule EXCEPT !.schengen_only = TRUE]
  ELSE rule

\* schengen_rule with two independent tests, one per phrase family
schengen_rule_independent(rule, is_non_schengen, is_schengen) ==
  [rule EXCEPT !.non_schengen_only = is_non_schengen, !.schengen_only = is_schengen]

\* The body of `for rule in rules` of the Schengen context
schengen_rule(rule, is_non_schengen, is_schengen) ==
  IF is_non_schengen /\ ~is_schengen THEN [rule EXCEPT !.non_schengen_only = TRUE]
  ELSE IF is_schengen /\ ~is_non_schengen THEN [rule EXCEPT !.schengen_only = TRUE]
  ELSE rule

schengen_rules(rules, is_non_schengen, is_schengen) ==
  [i \in 1..Len(rules) |-> schengen_rule(rules[i], is_non_schengen, is_schengen)]

\* Add Schengen context
schengen_context(rules, text) ==
  schengen_rules(rules, search(SCHENGEN_PATTERN, text) # None,
                 search(INTRA_SCHENGEN_PATTERN, text) # None)

\* if llm_rules: rules.extend(llm_rules) else: warnings.append(...)
llm_result(rules, llm_rules) ==
  IF llm_rules # <<>> THEN [rules |-> rules \o llm_rules, warnings |-> <<>>]
  ELSE [rules |-> rules, warnings |-> <<"Could not parse with regex or LLM">>]

\* llm_fallback with `if not rules` in place of `elif not rules`: the regex
\* warning is added after the fallback has failed
llm_fallback_both_warnings(use_llm_fallback, icao, text, rules) ==
  IF rules = <<>> /\ use_llm_fallback
    THEN [rules |-> rules,
          warnings |-> llm_result(rules, parse_with_llm(use_llm_fallback, icao, text)).warnings
                         \o <<"Could not parse notification rules with regex patterns">>]
  ELSE IF rules = <<>>
    THEN [rules |-> rules,
          warnings |-> <<"Could not parse notification rules with regex patterns">>]
  ELSE [rules |-> rules, warnings |-> <<>>]

\* llm_fallback with `else` in place of `elif not rules`: the regex warning is
\* added whenever the fallback was not tried
llm_fallback_else_warning(use_llm_fallback, icao, text, rules) ==
  IF rules = <<>> /\ use_llm_fallback
    THEN llm_result(rules, parse_with_llm(use_llm_fallback, icao, text))
  ELSE [rules |-> rules,
        warnings |-> <<"Could not parse notification rules with regex patterns">>]

\* LLM fallback: [rules, warnings]
llm_fallback(use_llm_fallback, icao, text, rules) ==
  IF rules = <<>> /\ use_llm_fallback
    THEN llm_result(rules, parse_with_llm(use_llm_fallback, icao, text))
  ELSE IF rules = <<>>
    THEN [rules |-> rules,
          warnings |-> <<"Could not parse notification rules with regex patterns">>]
  ELSE [rules |-> rules, warnings |-> <<>>]

\* return ParsedNotificationRules(icao=icao, rules=rules, raw_text=text, ...)
parse_result(icao, text, std_field_id, final) ==
  ParsedNotificationRules(icao, final.rules, text, std_field_id, final.warnings)

\* parse after the extraction: Schengen context, LLM fallback, result
parse_extracted(use_llm_fallback, icao, text, std_field_id, extracted) ==
  IF extracted.exc # "" THEN Raised(extracted.exc)
  ELSE parse_result(icao, text, std_field_id,
                    llm_fallback(use_llm_fallback, icao, text,
                                 schengen_context(extracted.rules, text)))

\* parse after text = text.strip()
parse_stripped(use_llm_fallback, icao, text, std_field_id) ==
  parse_extracted(use_llm_fallback, icao, text, std_field_id, extract_rules(text))

\* parse that reads the text of the customs / immigration field only: another
\* field id is answered like an empty text
parse_default_field_only(use_llm_fallback, icao, text, std_field_id) ==
  IF std_field_id # 302 \/ Strip(text) = <<>>
    THEN ParsedNotificationRules(icao, <<>>, text, std_field_id, <<"Empty text">>)
  ELSE parse_stripped(use_llm_fallback, icao, Strip(text), std_field_id)

\* parse without the early return for an empty or whitespace-only text
parse_without_early_return(use_llm_fallback, icao, text, std_field_id) ==
  parse_stripped(use_llm_fallback, icao, Strip(text), std_field_id)

parse(use_llm_fallback, icao, text, std_field_id) ==
  IF text = <<>> \/ Strip(text) = <<>>
    THEN ParsedNotificationRules(icao, <<>>, text, std_field_id, <<"Empty text">>)
  ELSE parse_stripped(use_llm_fallback, icao, Strip(text), std_field_id)

\* parse_batch that skips the pairs with an empty text
parse_batch_skip_empty(use_llm_fallback, airports, std_field_id) ==
  [i \in 1..Len(SelectSeq(airports, LAMBDA a : a.text # <<>>)) |->
     parse(use_llm_fallback, SelectSeq(airports, LAMBDA a : a.text # <<>>)[i].icao,
           SelectSeq(airports, LAMBDA a : a.text # <<>>)[i].text, std_field_id)]

\* parse_batch: [self.parse(icao, text, std_field_id) for icao, text in airports]
parse_batch(use_llm_fallback, airports, std_field_id) ==
  [i \in 1..Len(airports) |->
     parse(use_llm_fallback, airports[i].icao, airports[i].text, std_field_id)]

\* ------------------------------------------------------------------------
\* ParsedNotificationRules: derived properties, and HassleScore
\* ------------------------------------------------------------------------

has_rules(parsed) == Len(parsed.rules) > 0

\* is_h24 with all() in place of any()
is_h24_all(parsed) ==
  /\ \A i \in 1..Len(parsed.rules) : parsed.rules[i].notification_type = "h24"
  /\ has_rules(parsed)

is_h24(parsed) == \E i \in 1..Len(parsed.rules) : parsed.rules[i].notification_type = "h24"

is_on_request(parsed) ==
  /\ \A i \in 1..Len(parsed.rules) : parsed.rules[i].notification_type = "on_request"
  /\ has_rules(parsed)

\* max(hours) if hours else None
max_or_none(hours) ==
  IF hours = {} THEN None ELSE Some(CHOOSE h \in hours : \A k \in hours : k <= h)

max_hours_notice(parsed) ==
  max_or_none({parsed.rules[i].hours_notice[1] :
                 i \in {j \in 1..Len(parsed.rules) : parsed.rules[j].hours_notice # None}})

DayLabels == <<<<"M","O","N">>, <<"T","U","E">>, <<"W","E","D">>, <<"T","H","U">>, <<"F","R","I">>, <<"S","A","T">>, <<"S","U","N">>>>

get_weekday_description(rule) ==
  IF rule.weekday_start = None THEN <<"a","l","l"," ","d","a","y","s">>
  ELSE IF rule.weekday_end = None THEN DayLabels[rule.weekday_start[1] + 1]
  ELSE IF rule.weekday_start = Some(0) /\ rule.weekday_end = Some(4) THEN <<"w","e","e","k","d","a","y","s">>
  ELSE IF rule.weekday_start = Some(5) /\ rule.weekday_end = Some(6) THEN <<"w","e","e","k","e","n","d","s">>
  ELSE DayLabels[rule.weekday_start[1] + 1] \o <<"-">> \o DayLabels[rule.weekday_end[1] + 1]

\* The summary of an HOURS rule with hours_notice
hours_summary(weekday_desc, hours_notice) ==
  IF weekday_desc = <<"a","l","l"," ","d","a","y","s">> THEN <<"P","P","R"," ">> \o str(hours_notice) \o <<"h">>
  ELSE weekday_desc \o <<":"," ","P","P","R"," ">> \o str(hours_notice) \o <<"h">>

\* The entry get_summary appends for one rule: None when it appends nothing
rule_summary(rule) ==
  IF rule.notification_type = "hours" /\ rule.hours_notice # None /\ rule.hours_notice # Some(0)
    THEN Some(hours_summary(get_weekday_description(rule), rule.hours_notice[1]))
  ELSE IF rule.notification_type = "business_day"
    THEN Some(<<"L","a","s","t"," ","b","u","s","i","n","e","s","s"," ","d","a","y">>
                \o (IF rule.specific_time # None /\ rule.specific_time # Some(<<>>)
                      THEN <<" ","b","e","f","o","r","e"," ">> \o rule.specific_time[1] ELSE <<>>))
  ELSE IF rule.notification_type = "on_request" THEN Some(<<"O","/","R">>)
  ELSE None

\* "; ".join(summaries)
RECURSIVE join(_)
join(summaries) ==
  IF summaries = <<>> THEN <<>>
  ELSE IF Len(summaries) = 1 THEN summaries[1]
  ELSE summaries[1] \o <<";"," ">> \o join(Tail(summaries))

\* "; ".join(summaries) if summaries else "See detailed rules"
joined_or_default(entries) ==
  IF entries # <<>> THEN join([i \in 1..Len(entries) |-> entries[i][1]])
  ELSE <<"S","e","e"," ","d","e","t","a","i","l","e","d"," ","r","u","l","e","s">>

get_summary(parsed) ==
  IF ~has_rules(parsed) THEN <<"N","o"," ","n","o","t","i","f","i","c","a","t","i","o","n"," ","r","u","l","e","s"," ","p","a","r","s","e","d">>
  ELSE IF is_h24(parsed) THEN <<"H","2","4"," ","-"," ","N","o"," ","p","r","i","o","r"," ","n","o","t","i","c","e"," ","r","e","q","u","i","r","e","d">>
  ELSE IF is_on_request(parsed) THEN <<"O","n"," ","r","e","q","u","e","s","t"," ","/"," ","b","y"," ","a","r","r","a","n","g","e","m","e","n","t">>
  ELSE joined_or_default(
         SelectSeq([i \in 1..Len(parsed.rules) |-> rule_summary(parsed.rules[i])],
                   LAMBDA e : e # None))

\* HassleScore(...): the score, or the ValidationError of Field(..., ge=0.0, le=1.0)
HassleScore(icao, level, score, summary, max_hours, has_weekend, has_schengen) ==
  [outcome |-> IF score \in 0..UnitMax THEN "returned" ELSE "raised",
   icao |-> icao, level |-> level, score |-> score,
   summary |-> summary, max_hours_notice |-> max_hours,
   has_weekend_rules |-> has_weekend, has_schengen_rules |-> has_schengen]

\* base_score with `<` in place of `<=` in the 72 hours test
base_score_exclusive(max_hours) ==
  IF max_hours = None THEN <<"high", 70>>
  ELSE IF max_hours[1] <= 2 THEN <<"low", 15>>
  ELSE IF max_hours[1] <= 12 THEN <<"low", 25>>
  ELSE IF max_hours[1] <= 24 THEN <<"moderate", 40>>
  ELSE IF max_hours[1] <= 48 THEN <<"high", 60>>
  ELSE IF max_hours[1] < 72 THEN <<"high", 75>>
  ELSE <<"very_high", 90>>

\* The if / elif chain on max_hours: <<level, score in hundredths>>
base_score(max_hours) ==
  IF max_hours = None THEN <<"high", 70>>
  ELSE IF max_hours[1] <= 2 THEN <<"low", 15>>
  ELSE IF max_hours[1] <= 12 THEN <<"low", 25>>
  ELSE IF max_hours[1] <= 24 THEN <<"moderate", 40>>
  ELSE IF max_hours[1] <= 48 THEN <<"high", 60>>
  ELSE IF max_hours[1] <= 72 THEN <<"high", 75>>
  ELSE <<"very_high", 90>>

\* weekend_penalty that adds 0.2
weekend_penalty_double(score) == IF score + 20 < UnitMax THEN score + 20 ELSE UnitMax

\* score = min(1.0, score + 0.1), to the hundredth: the binary floating point sum
\* of 0.7 and 0.1 is 0.7999999999999999, the other sums of a base score and 0.1
\* are the nearest floating point number to the decimal sum
weekend_penalty(score) == IF score + 10 < UnitMax THEN score + 10 ELSE UnitMax

\* has_weekend_rules with `weekday_start >= 5`: Sunday counts as well
has_weekend_rules_from_saturday(parsed) ==
  \E i \in 1..Len(parsed.rules) :
    \/ parsed.rules[i].weekday_start # None /\ parsed.rules[i].weekday_start[1] >= 5
    \/ parsed.rules[i].includes_holidays

\* has_weekend = any(r.weekday_start == 5 or r.includes_holidays for r in parsed.rules)
has_weekend_rules(parsed) ==
  \E i \in 1..Len(parsed.rules) :
    parsed.rules[i].weekday_start = Some(5) \/ parsed.rules[i].includes_holidays

\* has_schengen = any(r.schengen_only or r.non_schengen_only for r in parsed.rules)
has_schengen_rules(parsed) ==
  \E i \in 1..Len(parsed.rules) :
    parsed.rules[i].schengen_only \/ parsed.rules[i].non_schengen_only

\* hours_based that scores a list with a business-day rule HIGH / 0.7 whatever
\* its hours notice
hours_based_business_first(parsed, max_hours, base, has_weekend) ==
  IF \E i \in 1..Len(parsed.rules) : parsed.rules[i].notification_type = "business_day"
    THEN HassleScore(parsed.icao, "high",
                     IF has_weekend THEN weekend_penalty(70) ELSE 70,
                     get_summary(parsed), max_hours, has_weekend, has_schengen_rules(parsed))
  ELSE HassleScore(parsed.icao, base[1],
                   IF has_weekend THEN weekend_penalty(base[2]) ELSE base[2],
                   get_summary(parsed), max_hours, has_weekend, has_schengen_rules(parsed))

\* hours_based that adds 0.1 for each weekend rule, without the min(1.0, ...)
hours_based_penalty_per_rule(parsed, max_hours, base, has_weekend) ==
  HassleScore(parsed.icao, base[1],
              base[2] + 10 * Cardinality({i \in 1..Len(parsed.rules) :
                                            \/ parsed.rules[i].weekday_start = Some(5)
                                            \/ parsed.rules[i].includes_holidays}),
              get_summary(parsed), max_hours, has_weekend, has_schengen_rules(parsed))

\* "Calculate based on hours notice": the last return of from_parsed_rules
hours_based(parsed, max_hours, base, has_weekend) ==
  HassleScore(parsed.icao, base[1],
              IF has_weekend THEN weekend_penalty(base[2]) ELSE base[2],
              get_summary(parsed), max_hours, has_weekend, has_schengen_rules(parsed))

from_parsed_rules(parsed) ==
  IF ~has_rules(parsed)
    THEN HassleScore(parsed.icao, "moderate", 50, <<"U","n","a","b","l","e"," ","t","o"," ","p","a","r","s","e"," ","n","o","t","i","f","i","c","a","t","i","o","n"," ","r","u","l","e","s">>,
                     None, FALSE, FALSE)
  ELSE IF is_h24(parsed)
    THEN HassleScore(parsed.icao, "none", 0, <<"H","2","4"," ","-"," ","N","o"," ","p","r","i","o","r"," ","n","o","t","i","c","e"," ","r","e","q","u","i","r","e","d">>,
                     None, FALSE, FALSE)
  ELSE IF is_on_request(parsed)
    THEN HassleScore(parsed.icao, "low", 20, <<"O","n"," ","r","e","q","u","e","s","t"," ","/"," ","b","y"," ","a","r","r","a","n","g","e","m","e","n","t">>,
                     None, FALSE, FALSE)
  ELSE IF \A i \in 1..Len(parsed.rules) : parsed.rules[i].notification_type = "as_ad_hours"
    THEN HassleScore(parsed.icao, "low", 15, <<"A","s"," ","a","e","r","o","d","r","o","m","e"," ","h","o","u","r","s">>, None, FALSE, FALSE)
  ELSE hours_based(parsed, max_hours_notice(parsed), base_score(max_hours_notice(parsed)),
                   has_weekend_rules(parsed))

\* ------------------------------------------------------------------------
\* Inputs
\* ------------------------------------------------------------------------

\* Phrases of AIP customs / immigration text.  A text is made of at most
\* MaxFragments of them, in this order, separated by one space.
Fragments ==
  <<<<" ">>,
    <<"H","2","4">>,
    <<"O","/","R",",">>,
    <<"a","s"," ","A","D"," ","h","o","u","r","s">>,
    <<"P","P","R"," ","2","4"," ","H","R",",">>,
    <<"4"," ","h","o","u","r","s"," ","p","r","i","o","r"," ","n","o","t","i","c","e">>,
    <<"P","N"," ","2","4","H","R">>,
    <<"4","8","H","R"," ","P","P","R"," ","M","N","M">>,
    <<"2","4","H","R"," ","f","o","r"," ","c","u","s","t","o","m","s">>,
    <<"S","A","T","-","S","U","N"," ","P","P","R"," ","4","8"," ","H","R">>,
    <<"S","A","T","-","S","U","N",","," ","P","P","R"," ","4","8"," ","H","R">>,
    <<"W","e","e","k","-","e","n","d",":"," ","4","8"," ","H">>,
    <<"F","R","I","-","H","O","L",":"," ","P","N"," ","7","3"," ","H","R","S">>,
    <<"S","U","N",","," ","1","2"," ","H","R">>,
    <<"w","e","e","k","d","a","y","s",":"," ","2"," ","H">>,
    <<"l","a","s","t"," ","w","o","r","k","i","n","g"," ","d","a","y"," ","b","e","f","o","r","e"," ","1","5","0","0">>,
    <<"l","a","s","t"," ","b","u","s","i","n","e","s","s"," ","d","a","y">>,
    <<"n","o","n","-","S","c","h","e","n","g","e","n">>,
    <<"i","n","t","r","a","-","S","c","h","e","n","g","e","n">>,
    <<"n","o","n","-","S","c","h","e","n","g","e","n"," ","f","l","i","g","h","t","s">>,
    <<"W","E","E","K","-","D","A","Y","S",":"," ","2"," ","H">>,
    <<"H","2","4"," ","P","N"," ","2"," ","H","R">>>>

MaxFragments == 2

\* The fragments ids (ascending), joined by single spaces
RECURSIVE TextOf(_)
TextOf(ids) ==
  IF ids = <<>> THEN <<>>
  ELSE IF Len(ids) = 1 THEN Fragments[ids[1]]
  ELSE Fragments[ids[1]] \o <<" ">> \o TextOf(Tail(ids))

\* The ascending sequences of at most MaxFragments fragment ids
FragmentIds ==
  UNION {{ids \in [1..n -> 1..Len(Fragments)] : \A i \in 1..(n - 1) : ids[i] < ids[i + 1]} :
           n \in 0..MaxFragments}

Texts == {TextOf(ids) : ids \in FragmentIds}

Icaos == {"LFPG", "X"}

\* std_field_id: the default of parse and parse_batch, and another field
DefaultFieldId == 302

FieldIds == {DefaultFieldId, DefaultFieldId + 1}

\* The texts of the batches
BatchTexts == {TextOf(ids) : ids \in {<<>>, <<2>>, <<14, 19>>}}

MaxBatch == 2

Airports == [icao : Icaos, text : BatchTexts]

Batches == UNION {[1..n -> Airports] : n \in 0..MaxBatch}

\* Rules handed to from_parsed_rules directly: every notification type, the
\* hours_notice values around the thresholds of the score, and for some of them
\* a weekday, the holidays flag or a Schengen flag
HoursNotice == {0, 2, 3, 12, 13, 24, 25, 48, 49, 72, 73}

BaseRules ==
  {[RuleDefaults EXCEPT !.rule_type = "customs", !.notification_type = t] :
     t \in {"h24", "on_request", "as_ad_hours"}}
  \cup {[RuleDefaults EXCEPT !.rule_type = "ppr", !.notification_type = "business_day",
                             !.business_day_offset = Some(-1)],
        [RuleDefaults EXCEPT !.rule_type = "ppr", !.notification_type = "hours"]}
  \cup {[RuleDefaults EXCEPT !.rule_type = "ppr", !.notification_type = "hours",
                             !.hours_notice = Some(h)] : h \in HoursNotice}

VariedRules ==
  {r \in BaseRules : r.notification_type \in {"h24", "business_day"}
                        \/ r.hours_notice \in {Some(48), Some(73)}}

RuleVariants(r) ==
  {[r EXCEPT !.weekday_start = Some(d)] : d \in {4, 5, 6}}
  \cup {[r EXCEPT !.weekday_start = Some(5), !.weekday_end = Some(6)],
        [r EXCEPT !.includes_holidays = TRUE],
        [r EXCEPT !.non_schengen_only = TRUE],
        [r EXCEPT !.schengen_only = TRUE]}

Rules == {r \in BaseRules \cup UNION {RuleVariants(r) : r \in VariedRules} : RuleValid(r)}

MaxRules == 2

RuleLists == UNION {[1..n -> Rules] : n \in 0..MaxRules}

Records ==
  {ParsedNotificationRules("LFPG", rules, <<>>, DefaultFieldId, <<>>) : rules \in RuleLists}

\* ------------------------------------------------------------------------
\* The agent graph (aviation_agent/graph.py): AgentState and the three nodes
\* ------------------------------------------------------------------------

\* A dict is a function on the keys it holds; strings are tuples of characters
EmptyDict == <<>>

\* LangGraph writes the keys a node returns into the state (last value wins;
\* no node returns the key with a reducer, messages)
Merge(state, update) ==
  [k \in DOMAIN state \cup DOMAIN update |-> IF k \in DOMAIN update THEN update[k] ELSE state[k]]

\* state.get(key, default)
Get(state, key, default) == IF key \in DOMAIN state THEN state[key] ELSE default

\* `if state.get(key):` for a key that holds a string
Truthy(state, key) == key \in DOMAIN state /\ state[key] # <<>>

\* ", ".join(f"{k}={v}" for k, v in items)
RECURSIVE join_items(_)
join_items(items) ==
  IF items = <<>> THEN <<>>
  ELSE items[1][1] \o <<"=">> \o items[1][2]
       \o (IF Len(items) > 1 THEN <<","," ">> \o join_items(Tail(items)) ELSE <<>>)

\* sep.join(parts)
RECURSIVE join_with(_, _)
join_with(sep, parts) ==
  IF parts = <<>> THEN <<>>
  ELSE IF Len(parts) = 1 THEN parts[1]
  ELSE parts[1] \o sep \o join_with(sep, Tail(parts))

\* reasoning_parts of planner_node
reasoning_parts(plan) ==
  <<<<"S","e","l","e","c","t","e","d"," ","t","o","o","l",":"," ">> \o plan.selected_tool>>
  \o (IF plan.arguments.filters # None /\ plan.arguments.filters[1] # <<>>
        THEN <<<<"w","i","t","h"," ","f","i","l","t","e","r","s",":"," ">> \o join_items(plan.arguments.filters[1])>> ELSE <<>>)
  \o (IF plan.arguments.others # <<>>
        THEN <<<<"w","i","t","h"," ","a","r","g","u","m","e","n","t","s",":"," ">> \o join_items(plan.arguments.others)>> ELSE <<>>)

\* planner_node: [update, calls]
planner_node(state, planner) ==
  IF planner.outcome = "raises"
    THEN [update |-> [error |-> planner.message], calls |-> <<"planner.invoke">>]
  ELSE [update |-> [plan |-> planner.plan,
                    planning_reasoning |->
                      join_with(<<"."," ">>, reasoning_parts(planner.plan)) \o <<".">>],
        calls |-> <<"planner.invoke">>]

\* tool_node after the error check: the plan is run, if there is one
run_plan(state, tool_runner) ==
  IF "plan" \notin DOMAIN state
    THEN [update |-> [error |-> <<"N","o"," ","p","l","a","n"," ","a","v","a","i","l","a","b","l","e">>], calls |-> <<>>]
  ELSE IF tool_runner.outcome = "raises"
    THEN [update |-> [error |-> tool_runner.message], calls |-> <<"tool_runner.run">>]
  ELSE [update |-> [tool_result |-> tool_runner.result], calls |-> <<"tool_runner.run">>]

\* tool_node: [update, calls]
tool_node(state, tool_runner) ==
  IF Truthy(state, "error") THEN [update |-> EmptyDict, calls |-> <<>>]
  ELSE run_plan(state, tool_runner)

RouteTools ==
  {<<"s","e","a","r","c","h","_","a","i","r","p","o","r","t","s">>, <<"f","i","n","d","_","a","i","r","p","o","r","t","s","_","n","e","a","r","_","r","o","u","t","e">>, <<"f","i","n","d","_","a","i","r","p","o","r","t","s","_","n","e","a","r","_","l","o","c","a","t","i","o","n">>}

AirportTools ==
  {<<"g","e","t","_","a","i","r","p","o","r","t","_","d","e","t","a","i","l","s">>, <<"g","e","t","_","b","o","r","d","e","r","_","c","r","o","s","s","i","n","g","_","a","i","r","p","o","r","t","s">>, <<"g","e","t","_","a","i","r","p","o","r","t","_","s","t","a","t","i","s","t","i","c","s">>,
   <<"g","e","t","_","a","i","r","p","o","r","t","_","p","r","i","c","i","n","g">>, <<"g","e","t","_","p","i","l","o","t","_","r","e","v","i","e","w","s">>, <<"g","e","t","_","f","u","e","l","_","p","r","i","c","e","s">>}

RulesTools ==
  {<<"l","i","s","t","_","r","u","l","e","s","_","f","o","r","_","c","o","u","n","t","r","y">>, <<"c","o","m","p","a","r","e","_","r","u","l","e","s","_","b","e","t","w","e","e","n","_","c","o","u","n","t","r","i","e","s">>,
   <<"g","e","t","_","a","n","s","w","e","r","s","_","f","o","r","_","q","u","e","s","t","i","o","n","s">>, <<"l","i","s","t","_","r","u","l","e","_","c","a","t","e","g","o","r","i","e","s","_","a","n","d","_","t","a","g","s">>, <<"l","i","s","t","_","r","u","l","e","_","c","o","u","n","t","r","i","e","s">>}

\* _determine_kind: None for a tool of no family
determine_kind(tool_name) ==
  IF tool_name \in RouteTools THEN Some("route")
  ELSE IF tool_name \in AirportTools THEN Some("airport")
  ELSE IF tool_name \in RulesTools THEN Some("rules")
  ELSE None

\* plan.arguments.get(key): None for a missing key
RECURSIVE arg(_, _)
arg(items, key) ==
  IF items = <<>> THEN None
  ELSE IF items[1][1] = key THEN Some(items[1][2])
  ELSE arg(Tail(items), key)

\* a or b
Or(a, b) == IF a # None /\ a[1] # <<>> THEN a ELSE b

\* The kind-specific metadata of build_ui_payload
kind_metadata(plan) ==
  IF plan.selected_tool \in RouteTools
    THEN Merge([departure |-> Or(arg(plan.arguments.others, <<"f","r","o","m","_","i","c","a","o">>),
                                 arg(plan.arguments.others, <<"d","e","p","a","r","t","u","r","e">>)),
                destination |-> Or(arg(plan.arguments.others, <<"t","o","_","i","c","a","o">>),
                                   arg(plan.arguments.others, <<"d","e","s","t","i","n","a","t","i","o","n">>))],
               IF arg(plan.arguments.others, <<"i","f","r">>) # None
                 THEN [ifr |-> arg(plan.arguments.others, <<"i","f","r">>)[1]] ELSE EmptyDict)
  ELSE IF plan.selected_tool \in AirportTools
    THEN [icao |-> Or(arg(plan.arguments.others, <<"i","c","a","o">>),
                      arg(plan.arguments.others, <<"i","c","a","o","_","c","o","d","e">>))]
  ELSE IF plan.selected_tool \in RulesTools
    THEN [region |-> Or(arg(plan.arguments.others, <<"r","e","g","i","o","n">>),
                        arg(plan.arguments.others, <<"c","o","u","n","t","r","y","_","c","o","d","e">>)),
          topic |-> Or(arg(plan.arguments.others, <<"t","o","p","i","c">>),
                       arg(plan.arguments.others, <<"c","a","t","e","g","o","r","y">>))]
  ELSE EmptyDict

\* The fields of the tool result build_ui_payload copies to the top level
flattened(tool_result) ==
  Merge(Merge(IF "filter_profile" \in DOMAIN tool_result
                THEN [filters |-> tool_result.filter_profile] ELSE EmptyDict,
              IF "visualization" \in DOMAIN tool_result
                THEN [visualization |-> tool_result.visualization] ELSE EmptyDict),
        IF "airports" \in DOMAIN tool_result
          THEN [airports |-> tool_result.airports] ELSE EmptyDict)

\* build_ui_payload(plan, tool_result): None or Some(payload)
build_ui_payload(plan, tool_result) ==
  IF tool_result = EmptyDict THEN None
  ELSE IF determine_kind(plan.selected_tool) = None THEN None
  ELSE Some(Merge(Merge([kind |-> determine_kind(plan.selected_tool)[1],
                         mcp_raw |-> tool_result],
                        kind_metadata(plan)),
                  flattened(tool_result)))

\* r'\b([A-Z]{4})\b'; the keys of LowerMap are [A-Z]
IcaoCode ==
  Compile(Cat(<<Wb, Grp(1, Cat(<<Set(DOMAIN LowerMap), Set(DOMAIN LowerMap),
                                 Set(DOMAIN LowerMap), Set(DOMAIN LowerMap)>>)), Wb>>),
          FALSE)

\* Deduplicate while preserving order
RECURSIVE first_seen(_, _)
first_seen(codes, seen) ==
  IF codes = <<>> THEN <<>>
  ELSE IF codes[1] \in seen THEN first_seen(Tail(codes), seen)
  ELSE <<codes[1]>> \o first_seen(Tail(codes), seen \cup {codes[1]})

\* _extract_icao_codes(text)
extract_icao_codes(text) ==
  first_seen([m \in 1..Len(finditer(IcaoCode, text)) |-> group0(finditer(IcaoCode, text)[m], text)],
             {})

\* mentioned_icaos of formatter_node
mentioned_icaos(ui_payload, answer) ==
  IF ui_payload # None /\ ui_payload[1].kind \in {"route", "airport"}
    THEN extract_icao_codes(answer) ELSE <<>>

\* build_ui_payload(plan, tool_result) if plan else None
ui_payload_of(plan, tool_result) ==
  IF plan # None THEN build_ui_payload(plan[1], tool_result) ELSE None

\* formatting_reasoning of formatter_node
formatting_reasoning(plan, mentioned) ==
  <<"F","o","r","m","a","t","t","e","d"," ","a","n","s","w","e","r"," ","u","s","i","n","g"," ">>
  \o (IF plan # None THEN plan[1].answer_style ELSE <<"d","e","f","a","u","l","t">>) \o <<" ","s","t","y","l","e",".">>
  \o (IF mentioned # <<>> THEN <<" ","M","e","n","t","i","o","n","e","d"," ">> \o str(Len(mentioned)) \o <<" ","a","i","r","p","o","r","t","s",".">>
      ELSE <<>>)

\* thinking of formatter_node: "\n\n".join(thinking_parts)
thinking(state, reasoning) ==
  IF Truthy(state, "planning_reasoning")
    THEN join_with(<<"\n", "\n">>, <<state.planning_reasoning, reasoning>>)
  ELSE reasoning

\* The return of the try block of formatter_node, for the answer of the chain
formatted(state, plan, tool_result, answer) ==
  [final_answer |-> answer,
   thinking |-> thinking(state,
                         formatting_reasoning(plan,
                           mentioned_icaos(ui_payload_of(plan, tool_result), answer))),
   ui_payload |-> ui_payload_of(plan, tool_result)]

\* The try / except of formatter_node: the chain is invoked
formatter_chain_invoked(state, formatter_chain) ==
  IF formatter_chain.outcome = "raises"
    THEN [update |-> [final_answer |-> <<"E","r","r","o","r"," ","f","o","r","m","a","t","t","i","n","g"," ","r","e","s","p","o","n","s","e",":"," ">> \o formatter_chain.message,
                      error |-> formatter_chain.message,
                      thinking |-> Get(state, "planning_reasoning", <<>>)],
          calls |-> <<"formatter_chain.invoke">>]
  ELSE [update |-> formatted(state,
                             IF "plan" \in DOMAIN state THEN Some(state.plan) ELSE None,
                             Get(state, "tool_result", EmptyDict),
                             Strip(formatter_chain.text)),
        calls |-> <<"formatter_chain.invoke">>]

\* formatter_node that formats whether or not the state holds an error
formatter_node_ignores_error(state, formatter_chain) ==
  formatter_chain_invoked(state, formatter_chain)

\* formatter_node: [update, calls]
formatter_node(state, formatter_chain) ==
  IF Truthy(state, "error")
    THEN [update |-> [final_answer |-> <<"I"," ","e","n","c","o","u","n","t","e","r","e","d"," ","a","n"," ","e","r","r","o","r",":"," ">> \o state.error
                                         \o <<"."," ","P","l","e","a","s","e"," ","t","r","y"," ","a","g","a","i","n",".">>,
                      error |-> state.error,
                      thinking |-> Get(state, "planning_reasoning", <<>>)],
          calls |-> <<>>]
  ELSE formatter_chain_invoked(state, formatter_chain)

\* graph.add_edge: planner -> tool -> formatter -> END
Edges == [planner |-> "tool", tool |-> "formatter", formatter |-> "END"]

\* ------------------------------------------------------------------------
\* Inputs of the agent graph: what the injected planner, tool runner and
\* formatter chain do when they are invoked
\* ------------------------------------------------------------------------

\* AviationPlan: the arguments are the "filters" dict (None when the key is
\* missing) and the other items, each value by the text str() gives for it
Plans ==
  {[selected_tool |-> <<"s","e","a","r","c","h","_","a","i","r","p","o","r","t","s">>,
    arguments |-> [filters |-> Some(<<<<<<"h","a","s","_","a","v","g","a","s">>, <<"T","r","u","e">>>>>>),
                   others |-> <<<<<<"f","r","o","m","_","i","c","a","o">>, <<"E","G","T","F">>>>, <<<<"t","o","_","i","c","a","o">>, <<"L","F","M","D">>>>>>],
    answer_style |-> <<"n","a","r","r","a","t","i","v","e","_","m","a","r","k","d","o","w","n">>],
   [selected_tool |-> <<"g","e","t","_","a","i","r","p","o","r","t","_","d","e","t","a","i","l","s">>,
    arguments |-> [filters |-> None, others |-> <<<<<<"i","c","a","o","_","c","o","d","e">>, <<"E","G","T","F">>>>>>],
    answer_style |-> <<"b","r","i","e","f">>],
   [selected_tool |-> <<"l","i","s","t","_","r","u","l","e","_","c","o","u","n","t","r","i","e","s">>,
    arguments |-> [filters |-> Some(<<>>), others |-> <<>>],
    answer_style |-> <<"n","a","r","r","a","t","i","v","e","_","m","a","r","k","d","o","w","n">>],
   [selected_tool |-> <<"m","a","d","e","_","u","p">>,
    arguments |-> [filters |-> None, others |-> <<>>],
    answer_style |-> <<"n","a","r","r","a","t","i","v","e","_","m","a","r","k","d","o","w","n">>]}

\* planner.invoke returns a plan or raises; message is str(e) of the exception,
\* a text or none (raise ValueError())
Planners ==
  {[outcome |-> "returns", plan |-> p] : p \in Plans}
  \cup {[outcome |-> "raises", message |-> m] :
          m \in {<<>>, <<"P","l","a","n","n","e","r"," ","c","h","o","s","e"," ","'","x","'",","," ","w","h","i","c","h"," ","i","s"," ","n","o","t"," ","d","e","f","i","n","e","d"," ","i","n"," ","t","h","e"," ","m","a","n","i","f","e","s","t",".">>}}

\* The dict the tool client returns; the values stand for the data they hold
ToolResults ==
  {EmptyDict,
   [pretty |-> <<"E","G","T","F",":"," ","A","V","G","A","S">>],
   [pretty |-> <<"E","G","T","F",":"," ","A","V","G","A","S">>, airports |-> <<"[","E","G","T","F","]">>, visualization |-> <<"{","m","a","r","k","e","r","s","}">>,
    filter_profile |-> <<"{","h","a","s","_","a","v","g","a","s","}">>]}

\* tool_runner.run returns the dict or raises
ToolRunners ==
  {[outcome |-> "returns", result |-> r] : r \in ToolResults}
  \cup {[outcome |-> "raises", message |-> m] : m \in {<<>>, <<"t","i","m","e","o","u","t">>}}

\* The text of the string or message the formatter chain returns
Answers == {<<" ","U","s","e"," ","E","G","T","F"," ","o","r"," ","L","F","M","D",","," ","E","G","T","F"," ","h","a","s"," ","A","V","G","A","S","."," ">>, <<"n","o"," ","a","i","r","p","o","r","t"," ","f","o","u","n","d">>}

FormatterChains ==
  {[outcome |-> "returns", text |-> t] : t \in Answers}
  \cup {[outcome |-> "raises", message |-> <<"r","a","t","e"," ","l","i","m","i","t">>]}

\* graph.invoke({"messages": messages})
Messages == {<<<<"N","e","e","d"," ","I","F","R"," ","r","o","u","t","i","n","g"," ","f","r","o","m"," ","E","G","T","F"," ","t","o"," ","L","S","G","S"," ","w","i","t","h"," ","c","u","s","t","o","m","s"," ","s","t","o","p","s",".">>>>}

\* ------------------------------------------------------------------------
\* shared/prioritization: StrategyRegistry, PriorityEngine and
\* CostOptimizedStrategy.  Fees and distances are whole numbers.  A call
\* returns [outcome |-> "returned", value |-> v] or raises,
\* [outcome |-> "raised", exception |-> name].
\* ------------------------------------------------------------------------

\* landing_fee = 999999.0, the default for missing data
MissingFee == 999999

\* 900000 + segment_distance_nm
DistanceBase == 900000

\* max_results: int = 20
DefaultMaxResults == 20

\* has_procedures of CostOptimizedStrategy.score
has_procedures(airport) == airport.procedures # <<>>

\* has_border of CostOptimizedStrategy.score
has_border(airport) == airport.point_of_entry

\* priority_level of CostOptimizedStrategy.score
priority_level(airport) ==
  IF has_border(airport) /\ has_procedures(airport) THEN 1
  ELSE IF has_procedures(airport) THEN 2
  ELSE 3

\* getattr(tool_context, "enrichment_storage", None)
storage_of(tool_context) ==
  IF tool_context = None THEN None ELSE tool_context[1].enrichment_storage

\* landing_fee of CostOptimizedStrategy.score: the landing_fee_c172 of the
\* pricing data of the airport, MissingFee without storage, data or fee
landing_fee(airport, tool_context) ==
  IF storage_of(tool_context) = None THEN MissingFee
  ELSE IF airport.ident \notin DOMAIN storage_of(tool_context)[1] THEN MissingFee
  ELSE IF storage_of(tool_context)[1][airport.ident] = None THEN MissingFee
  ELSE storage_of(tool_context)[1][airport.ident][1]

\* segment_distance_nm of CostOptimizedStrategy.score: None or Some(distance)
segment_distance_nm(airport, context) ==
  IF context = None THEN None
  ELSE IF "segment_distances" \notin DOMAIN context[1] THEN None
  ELSE IF airport.ident \notin DOMAIN context[1].segment_distances THEN None
  ELSE Some(context[1].segment_distances[airport.ident])

\* score of CostOptimizedStrategy.score: the fee, else the distance on a high
\* base, else MissingFee
fee_or_distance(fee, distance) ==
  IF fee < MissingFee THEN fee
  ELSE IF distance # None THEN DistanceBase + distance[1]
  ELSE MissingFee

\* ScoredAirport(airport, priority_level, score, metadata)
ScoredAirport(airport, context, tool_context) ==
  [airport |-> airport,
   priority_level |-> priority_level(airport),
   score |-> fee_or_distance(landing_fee(airport, tool_context),
                             segment_distance_nm(airport, context)),
   metadata |-> [has_border |-> has_border(airport),
                 has_procedures |-> has_procedures(airport),
                 landing_fee |-> IF landing_fee(airport, tool_context) < MissingFee
                                 THEN Some(landing_fee(airport, tool_context)) ELSE None,
                 segment_distance_nm |-> segment_distance_nm(airport, context)]]

\* key=lambda x: (x.priority_level, x.score), compared as tuples
key_less(a, b) ==
  \/ a.priority_level < b.priority_level
  \/ a.priority_level = b.priority_level /\ a.score < b.score

\* One step of the stable sort: item goes after the items that are not greater
RECURSIVE sort_insert(_, _)
sort_insert(sorted, item) ==
  IF sorted = <<>> THEN <<item>>
  ELSE IF key_less(item, sorted[1]) THEN <<item>> \o sorted
  ELSE <<sorted[1]>> \o sort_insert(Tail(sorted), item)

\* scored.sort(key=...): ascending and stable
RECURSIVE sort_by_key(_, _)
sort_by_key(sorted, scored) ==
  IF scored = <<>> THEN sorted
  ELSE sort_by_key(sort_insert(sorted, scored[1]), Tail(scored))

\* The body of CostOptimizedStrategy.score(airports, context, tool_context)
cost_optimized_score(airport_list, context, tool_context) ==
  sort_by_key(<<>>, [i \in 1..Len(airport_list) |->
                       ScoredAirport(airport_list[i], context, tool_context)])

\* StrategyRegistry._strategies after the auto-registration: the strategies
\* by name, each with the parameters of its score method after self
score_parameters == [cost_optimized |-> {"airports", "context", "tool_context"}]

\* strategy_obj.score(airports, **keywords): Python binds each keyword to the
\* parameter of that name, and raises TypeError for a keyword score does not
\* have; a parameter without argument takes its default, None
call_score(strategy, airport_list, keywords) ==
  IF \E k \in DOMAIN keywords : k \notin score_parameters[strategy]
  THEN [outcome |-> "raised", exception |-> "TypeError"]
  ELSE [outcome |-> "returned",
        value |-> cost_optimized_score(airport_list, Get(keywords, "context", None),
                                       Get(keywords, "tool_context", None))]

\* strategy_obj of apply: StrategyRegistry.get(strategy), cost_optimized for
\* a name that is not registered
strategy_obj(strategy) ==
  IF strategy \in DOMAIN score_parameters THEN strategy ELSE "cost_optimized"

\* [item.airport for item in scored[:max_results]], max_results >= 0
top_airports(scored, max_results) ==
  [i \in 1..(IF max_results < Len(scored) THEN max_results ELSE Len(scored)) |->
     scored[i].airport]

\* The rest of apply for what strategy_obj.score did: an exception goes on to
\* the caller
apply_scored(called, max_results) ==
  IF called.outcome = "raised" THEN called
  ELSE [outcome |-> "returned", value |-> top_airports(called.value, max_results)]

\* PriorityEngine.apply(airports, strategy, context, max_results); the only
\* strategy registered is cost_optimized, so strategy_obj.score is its score
apply(self, airport_list, strategy, context, max_results) ==
  IF airport_list = <<>> THEN [outcome |-> "returned", value |-> <<>>]
  ELSE apply_scored(call_score(strategy_obj(strategy), airport_list,
                               [enrichment_storage |-> self.enrichment_storage,
                                context |-> context]),
                    max_results)

\* ------------------------------------------------------------------------
\* Inputs of the priority engine
\* ------------------------------------------------------------------------

\* Airport records: ident, procedures, point_of_entry; one for each priority
\* level, and one that is a point of entry without procedures
AirportRecords ==
  {[ident |-> "LFPG", procedures |-> <<"ILS">>, point_of_entry |-> TRUE],
   [ident |-> "EGKB", procedures |-> <<"RNP">>, point_of_entry |-> FALSE],
   [ident |-> "EGTF", procedures |-> <<>>, point_of_entry |-> FALSE],
   [ident |-> "LFAT", procedures |-> <<>>, point_of_entry |-> TRUE]}

MaxAirports == 2

\* The airports argument: lists of up to MaxAirports airports
AirportLists == UNION {[1..n -> AirportRecords] : n \in 0..MaxAirports}

\* EnrichmentStorage: None, or the landing_fee_c172 of the pricing data per
\* ident (None: pricing data without that fee; ident missing: no data)
Storages ==
  {None, Some([LFPG |-> Some(60), EGKB |-> Some(25), EGTF |-> None])}

\* The context argument: None, or a dict with the segment distances
Contexts ==
  {None, Some([segment_distances |-> [EGTF |-> 12, LFAT |-> 40, LFPG |-> 5]])}


\* ------------------------------------------------------------------------
\* State
\* ------------------------------------------------------------------------

VARIABLES
  use_llm_fallback,  \* NotificationParser.use_llm_fallback
  op,                \* the method called: "parse", "parse_batch" or "from_parsed_rules"
  airports,          \* its (icao, text) arguments: one pair for parse
  std_field_id,      \* its std_field_id argument
  parsed,            \* the ParsedNotificationRules handed to from_parsed_rules directly
  pc,                \* "call", then "returned" or "raised"
  results,           \* the ParsedNotificationRules returned
  scores             \* HassleScore.from_parsed_rules of the first results, or of parsed

VARIABLES
  node,              \* the node of the agent graph that runs next, "END" after the last
  state,             \* the AgentState of the run
  injected,          \* the planner, tool runner and formatter chain given to the graph
  invoked            \* the nodes run and the calls they made, in order

VARIABLES
  engine,            \* the PriorityEngine: its enrichment_storage
  applied,           \* the arguments of the call of apply, <<>> before it
  returned           \* what the call did: the list returned, or the exception

parser_vars == <<use_llm_fallback, op, airports, std_field_id, parsed, pc, results, scores>>

agent_vars == <<node, state, injected, invoked>>

priority_vars == <<engine, applied, returned>>

vars == <<parser_vars, agent_vars, priority_vars>>

\* No agent graph is run
NoGraph ==
  /\ node = "END"
  /\ state = EmptyDict
  /\ injected = EmptyDict
  /\ invoked = <<>>

\* No priority engine is built
NoEngine ==
  /\ engine = EmptyDict
  /\ applied = <<>>
  /\ returned = <<>>

\* No parser or scorer call is made
NoParserCall ==
  /\ use_llm_fallback = FALSE
  /\ op = "none"
  /\ airports = <<>>
  /\ std_field_id = DefaultFieldId
  /\ parsed = <<>>
  /\ pc = "returned"
  /\ results = <<>>
  /\ scores = <<>>

Init ==
  /\ use_llm_fallback \in BOOLEAN
  /\ \/ /\ op = "parse"
        /\ airports \in {<<[icao |-> "LFPG", text |-> t]>> : t \in Texts}
        /\ std_field_id = DefaultFieldId
        /\ parsed = <<>>
     \/ /\ op = "parse_batch"
        /\ airports \in Batches
        /\ std_field_id \in FieldIds
        /\ parsed = <<>>
     \/ /\ op = "from_parsed_rules"
        /\ use_llm_fallback = FALSE
        /\ airports = <<>>
        /\ std_field_id = DefaultFieldId
        /\ parsed \in {<<record>> : record \in Records}
  /\ pc = "call"
  /\ results = <<>>
  /\ scores = <<>>
  /\ NoGraph
  /\ NoEngine

\* The results up to the first one that raised
RECURSIVE UntilRaised(_)
UntilRaised(rs) ==
  IF rs = <<>> THEN <<>>
  ELSE IF rs[1].outcome = "raised" THEN <<rs[1]>>
  ELSE <<rs[1]>> \o UntilRaised(Tail(rs))

Completed(rs) == \A i \in 1..Len(rs) : rs[i].outcome = "returned"

\* parser.parse(icao, text)
Parse ==
  /\ pc = "call"
  /\ op = "parse"
  /\ results' = <<parse(use_llm_fallback, airports[1].icao, airports[1].text, std_field_id)>>
  /\ pc' = results'[1].outcome
  /\ UNCHANGED <<use_llm_fallback, op, airports, std_field_id, parsed, scores, agent_vars, priority_vars>>

\* parser.parse_batch(airports, std_field_id)
ParseBatch ==
  /\ pc = "call"
  /\ op = "parse_batch"
  /\ results' = UntilRaised(parse_batch(use_llm_fallback, airports, std_field_id))
  /\ pc' = IF Completed(results') THEN "returned" ELSE "raised"
  /\ UNCHANGED <<use_llm_fallback, op, airports, std_field_id, parsed, scores, agent_vars, priority_vars>>

\* HassleScore.from_parsed_rules(result), for the results in turn
Score ==
  /\ pc = "returned"
  /\ Len(scores) < Len(results)
  /\ scores' = Append(scores, from_parsed_rules(results[Len(scores) + 1]))
  /\ UNCHANGED <<use_llm_fallback, op, airports, std_field_id, parsed, pc, results, agent_vars, priority_vars>>

\* HassleScore.from_parsed_rules(parsed) of a record built by the caller
FromParsedRules ==
  /\ pc = "call"
  /\ op = "from_parsed_rules"
  /\ scores' = <<from_parsed_rules(parsed[1])>>
  /\ pc' = scores'[1].outcome
  /\ UNCHANGED <<use_llm_fallback, op, airports, std_field_id, parsed, results, agent_vars, priority_vars>>

Next == Parse \/ ParseBatch \/ Score \/ FromParsedRules

Spec == Init /\ [][Next]_vars

\* graph.invoke({"messages": messages}) on the graph built from the injected
\* planner, tool runner and formatter chain; the entry point is the planner
AgentInit ==
  /\ node = "planner"
  /\ state \in {[messages |-> m] : m \in Messages}
  /\ injected \in [planner : Planners, tool_runner : ToolRunners,
                    formatter_chain : FormatterChains]
  /\ invoked = <<>>
  /\ NoParserCall
  /\ NoEngine

PlannerNode ==
  /\ node = "planner"
  /\ state' = Merge(state, planner_node(state, injected.planner).update)
  /\ invoked' = invoked \o <<"planner_node">> \o planner_node(state, injected.planner).calls
  /\ node' = Edges[node]
  /\ UNCHANGED <<injected, parser_vars, priority_vars>>

ToolNode ==
  /\ node = "tool"
  /\ state' = Merge(state, tool_node(state, injected.tool_runner).update)
  /\ invoked' = invoked \o <<"tool_node">> \o tool_node(state, injected.tool_runner).calls
  /\ node' = Edges[node]
  /\ UNCHANGED <<injected, parser_vars, priority_vars>>

FormatterNode ==
  /\ node = "formatter"
  /\ state' = Merge(state, formatter_node(state, injected.formatter_chain).update)
  /\ invoked' = invoked \o <<"formatter_node">>
                   \o formatter_node(state, injected.formatter_chain).calls
  /\ node' = Edges[node]
  /\ UNCHANGED <<injected, parser_vars, priority_vars>>

AgentNext == PlannerNode \/ ToolNode \/ FormatterNode

AgentSpec == AgentInit /\ [][AgentNext]_vars

\* PriorityEngine(enrichment_storage)
PriorityInit ==
  /\ engine \in {[enrichment_storage |-> s] : s \in Storages}
  /\ applied = <<>>
  /\ returned = <<>>
  /\ NoParserCall
  /\ NoGraph

\* engine.apply(airports, strategy, context, max_results)
Apply ==
  /\ applied = <<>>
  /\ \E airport_list \in AirportLists, strategy \in {"cost_optimized", "fastest"},
        context \in Contexts, max_results \in {0, 1, DefaultMaxResults} :
       /\ applied' = [airports |-> airport_list, strategy |-> strategy,
                      context |-> context, max_results |-> max_results]
       /\ returned' = apply(engine, airport_list, strategy, context, max_results)
  /\ UNCHANGED <<engine, parser_vars, agent_vars>>

PriorityNext == Apply

PrioritySpec == PriorityInit /\ [][PriorityNext]_vars


\* ------------------------------------------------------------------------
\* Properties
\* ------------------------------------------------------------------------

\* The text parse works on for the i-th pair: the argument after strip()
Stripped(i) == Strip(airports[i].text)

\* The i-th text is empty or whitespace only
Blank(i) == \A k \in 1..Len(airports[i].text) : airports[i].text[k] \in Space

\* pattern.search finds a match in the i-th text
Found(pattern, i) == search(pattern, Stripped(i)) # None

\* The i-th result holds exactly one rule, of this notification type and confidence
OnlyRule(i, notification_type, confidence) ==
  /\ Len(results[i].rules) = 1
  /\ results[i].rules[1].notification_type = notification_type
  /\ results[i].rules[1].confidence = confidence

C3_OnRequest ==
  \A i \in 1..Len(results) :
    results[i].outcome = "returned" =>
      IF ~Blank(i) /\ ~Found(H24_PATTERN, i)
           /\ Found(ON_REQUEST_PATTERN, i) /\ ~Found(HOURS_PATTERN, i)
        THEN /\ OnlyRule(i, "on_request", 90)
             /\ i <= Len(scores) => (scores[i].level = "low" /\ scores[i].score = 20)
        ELSE \A k \in 1..Len(results[i].rules) :
               results[i].rules[k].notification_type # "on_request"

\* An on-request text has been parsed and scored, and so has a text with an
\* on-request phrase and an hours phrase
C3_Witness ==
  /\ op = "parse"
  /\ Len(scores) = 1
  /\ Found(ON_REQUEST_PATTERN, 1)
  /\ ~Found(HOURS_PATTERN, 1)
  /\ results[1].rules[1].notification_type = "on_request"
  /\ scores[1].score = 20

\* C4: the top-level checks of parse are ordered, the first that applies wins:
\* H24, on request, as AD hours, layered extraction.  A text (no H24, no hours
\* pattern) matching an on-request and an as-AD-hours phrase yields the single
\* ON_REQUEST rule; a single AS_AD_HOURS rule (confidence 0.9) is returned exactly
\* when the first two checks do not apply, the as-AD-hours pattern matches and no
\* hours pattern matches.
C4_FirstMatchWins ==
  \A i \in 1..Len(results) :
    (results[i].outcome = "returned" /\ ~Blank(i)) =>
      LET h24 == Found(H24_PATTERN, i)
          on_request == Found(ON_REQUEST_PATTERN, i)
          as_ad == Found(AS_AD_HOURS_PATTERN, i)
          hours == Found(HOURS_PATTERN, i)
      IN /\ h24 => OnlyRule(i, "h24", 95)
         /\ (~h24 /\ ~hours /\ on_request /\ as_ad) => OnlyRule(i, "on_request", 90)
         /\ (~h24 /\ ~(on_request /\ ~hours) /\ as_ad /\ ~hours)
              <=> OnlyRule(i, "as_ad_hours", 90)
         /\ (~h24 /\ ~(on_request /\ ~hours) /\ ~(as_ad /\ ~hours)) =>
              \A k \in 1..Len(results[i].rules) :
                results[i].rules[k].notification_type \in {"hours", "business_day"}

\* A text with an on-request and an as-AD-hours phrase has been parsed
C4_Witness ==
  /\ op = "parse"
  /\ pc = "returned"
  /\ Found(ON_REQUEST_PATTERN, 1)
  /\ Found(AS_AD_HOURS_PATTERN, 1)
  /\ ~Found(HOURS_PATTERN, 1)
  /\ results[1].rules[1].notification_type = "on_request"

\* An as-AD-hours text has been parsed
C4_WitnessAsAd ==
  /\ op = "parse"
  /\ pc = "returned"
  /\ OnlyRule(1, "as_ad_hours", 90)


\* The i-th text takes the else branch of parse (layered extraction)
Layered(i) ==
  /\ ~Blank(i)
  /\ ~Found(H24_PATTERN, i)
  /\ ~(Found(ON_REQUEST_PATTERN, i) /\ ~Found(HOURS_PATTERN, i))
  /\ ~(Found(AS_AD_HOURS_PATTERN, i) /\ ~Found(HOURS_PATTERN, i))

\* A rule as it was before the Schengen context was added
Unannotated(rule) == [rule EXCEPT !.schengen_only = FALSE, !.non_schengen_only = FALSE]

\* The rules of the i-th result, unannotated
Extracted(i) == [k \in 1..Len(results[i].rules) |-> Unannotated(results[i].rules[k])]

\* The weekday-specific rules (confidence 0.85) and the general hours rules
\* (confidence 0.8) of the i-th result
WeekdayRules(i) ==
  SelectSeq(results[i].rules, LAMBDA r : r.notification_type = "hours" /\ r.confidence = 85)

GeneralRules(i) ==
  SelectSeq(results[i].rules, LAMBDA r : r.notification_type = "hours" /\ r.confidence = 80)

\* C5: in the layered branch the returned rules are the weekday-specific rules if
\* there is one, otherwise the deduplicated general hours rules, followed by all
\* business-day rules: general hours rules never appear together with
\* weekday-specific rules, business-day rules are added whatever the hours steps
\* gave, and every HOURS rule precedes every BUSINESS_DAY rule.
C5_LayeredOrder ==
  \A i \in 1..Len(results) :
    (results[i].outcome = "returned" /\ Layered(i)) =>
      LET weekday == extract_weekday_rules(Stripped(i)).rules
          general == extract_hours_rules(Stripped(i)).rules
          business == extract_business_day_rules(Stripped(i)).rules
          rules == Extracted(i)
      IN /\ rules = (IF weekday # <<>> THEN weekday ELSE general) \o business
         /\ WeekdayRules(i) = <<>> \/ GeneralRules(i) = <<>>
         /\ \A k \in 1..Len(business) :
              rules[Len(rules) - Len(business) + k].notification_type = "business_day"
         /\ \A k, l \in 1..Len(rules) :
              (rules[k].notification_type = "hours"
                 /\ rules[l].notification_type = "business_day") => k < l

\* A text with a weekday phrase (whose hours also match the general pattern) and
\* a business-day phrase has been parsed: weekday rule, then business-day rule
C5_Witness ==
  /\ op = "parse"
  /\ pc = "returned"
  /\ Layered(1)
  /\ extract_hours_rules(Stripped(1)).rules # <<>>
  /\ Len(results[1].rules) = 2
  /\ results[1].rules[1].confidence = 85
  /\ results[1].rules[2].notification_type = "business_day"

\* The matches of the general hours pattern in the i-th text
HoursMatches(i) == finditer(HOURS_PATTERN, Stripped(i))

\* The matches that are the first with their number of hours
FirstOccurrences(i) ==
  {k \in 1..Len(HoursMatches(i)) :
     \A j \in 1..(k - 1) :
       hours_group(Stripped(i), HoursMatches(i)[j]) # hours_group(Stripped(i), HoursMatches(i)[k])}

\* C6: the general hours rules of a result have pairwise distinct hours_notice
\* values: for each value only the first match in the text is kept (raw_text is
\* that match), and the kept rules stay in order of first occurrence.
C6_HoursDeduplicated ==
  \A i \in 1..Len(results) :
    (results[i].outcome = "returned" /\ GeneralRules(i) # <<>>) =>
      LET general == GeneralRules(i)
          matches == HoursMatches(i)
          first == FirstOccurrences(i)
      IN /\ \A a, b \in 1..Len(general) :
              a # b => general[a].hours_notice # general[b].hours_notice
         /\ Len(general) = Cardinality(first)
         /\ \A a \in 1..Len(general) :
              \E k \in first :
                /\ Cardinality({j \in first : j <= k}) = a
                /\ general[a].hours_notice = hours_group(Stripped(i), matches[k])
                /\ general[a].raw_text = Some(group0(matches[k], Stripped(i)))

\* A text stating the same number of hours in two phrasings has given one rule
C6_Witness ==
  /\ op = "parse"
  /\ pc = "returned"
  /\ Len(HoursMatches(1)) = 2
  /\ Len(GeneralRules(1)) = 1
  /\ Len(results[1].rules) = 1

\* The day names, Monday first
WeekDays == <<<<"m","o","n">>, <<"t","u","e">>, <<"w","e","d">>, <<"t","h","u">>, <<"f","r","i">>, <<"s","a","t">>, <<"s","u","n">>>>

WeekDayFull ==
  <<<<"m","o","n","d","a","y">>, <<"t","u","e","s","d","a","y">>, <<"w","e","d","n","e","s","d","a","y">>, <<"t","h","u","r","s","d","a","y">>, <<"f","r","i","d","a","y">>, <<"s","a","t","u","r","d","a","y">>, <<"s","u","n","d","a","y">>>>

IsHolidayToken(token) == LowerStr(token) \in {<<"h","o","l">>, <<"h","o","l","i","d","a","y">>, <<"h","o","l","i","d","a","y","s">>}

IsWeekdaysToken(token) == LowerStr(token) \in {<<"w","e","e","k","d","a","y">>, <<"w","e","e","k","d","a","y","s">>}

IsWeekendToken(token) == LowerStr(token) \in {<<"w","e","e","k","-","e","n","d">>, <<"w","e","e","k","e","n","d">>}

\* The day number of a day name (0 = Monday), None for any other token
DayNumber(token) ==
  LET days == {d \in 1..7 : LowerStr(token) \in {WeekDays[d], WeekDayFull[d]}}
  IN IF days = {} THEN None ELSE Some((CHOOSE d \in days : TRUE) - 1)

\* The rule C7 states for a weekday match with start token S, end token E (None
\* when absent), N hours and the matched text
ExpectedWeekdayRule(S, E, N, matched) ==
  [RuleDefaults EXCEPT
     !.rule_type = "ppr",
     !.notification_type = "hours",
     !.confidence = 85,
     !.hours_notice = Some(N),
     !.weekday_start = IF IsWeekdaysToken(S) THEN Some(0)
                       ELSE IF IsWeekendToken(S) THEN Some(5)
                       ELSE DayNumber(S),
     !.weekday_end = IF E # None THEN DayNumber(E[1])
                     ELSE IF IsWeekdaysToken(S) THEN Some(4)
                     ELSE IF IsWeekendToken(S) THEN Some(6)
                     ELSE None,
     !.includes_holidays = IsHolidayToken(S) \/ (E # None /\ IsHolidayToken(E[1])),
     !.raw_text = Some(matched)]

WeekdayMatches(i) == finditer(WEEKDAY_HOURS_PATTERN, Stripped(i))

\* C7: the weekday extraction gives, for each match of the weekday pattern with
\* start token S, optional end token E and hours N, exactly one HOURS rule (rule
\* type PPR, confidence 0.85), in text order and without deduplication, with
\* hours_notice = N; weekday_start is the day number of S (0 = Monday), or the
\* range start when S is weekday(s) (0) or week-end / weekend (5); weekday_end
\* is the day number of E when E is given, else the range end of a compound S
\* (4 or 6), else absent; includes_holidays is true iff S or E is a holiday
\* token.  These are the weekday-specific rules of every result of the layered
\* branch, where the extraction runs.
C7_WeekdayRules ==
  \A i \in 1..Len(results) :
    results[i].outcome = "returned" =>
      LET text == Stripped(i)
          matches == WeekdayMatches(i)
          rules == extract_weekday_rules(text).rules
      IN /\ Len(rules) = Len(matches)
         /\ \A k \in 1..Len(matches) :
              rules[k] = ExpectedWeekdayRule(group(matches[k], text, 1)[1],
                                             group(matches[k], text, 2),
                                             int(group(matches[k], text, 3)[1]),
                                             group0(matches[k], text))
         /\ Layered(i) =>
              [k \in 1..Len(WeekdayRules(i)) |-> Unannotated(WeekdayRules(i)[k])] = rules

\* A text with two weekday phrases of the same number of hours, one a day range
\* and one a compound token, has given two rules
C7_Witness ==
  /\ op = "parse"
  /\ pc = "returned"
  /\ Len(WeekdayMatches(1)) = 2
  /\ Len(results[1].rules) = 2
  /\ results[1].rules[1].hours_notice = results[1].rules[2].hours_notice
  /\ results[1].rules[1].weekday_end = Some(6)
  /\ IsWeekendToken(group(WeekdayMatches(1)[2], Stripped(1), 1)[1])

\* A weekday phrase whose end token is a holiday token has given a rule
C7_WitnessHoliday ==
  /\ op = "parse"
  /\ pc = "returned"
  /\ Len(WeekdayMatches(1)) = 1
  /\ Len(results[1].rules) = 1
  /\ results[1].rules[1].includes_holidays
  /\ results[1].rules[1].weekday_start = Some(4)
  /\ results[1].rules[1].weekday_end = None

\* C8: after extraction all rules of one result carry the same Schengen
\* annotation: non_schengen_only is set on every rule iff only the non-Schengen
\* phrase family matches the text, schengen_only on every rule iff only the
\* intra-Schengen family matches, and no rule is annotated when both families or
\* neither match; short-circuit rules are annotated like layered rules.
C8_SchengenAnnotation ==
  \A i \in 1..Len(results) :
    results[i].outcome = "returned" =>
      LET non == Found(SCHENGEN_PATTERN, i)
          intra == Found(INTRA_SCHENGEN_PATTERN, i)
      IN \A k \in 1..Len(results[i].rules) :
           /\ results[i].rules[k].non_schengen_only = (non /\ ~intra)
           /\ results[i].rules[k].schengen_only = (intra /\ ~non)

\* A short-circuit rule has been annotated non-Schengen only
C8_Witness ==
  /\ op = "parse"
  /\ pc = "returned"
  /\ Len(results[1].rules) = 1
  /\ results[1].rules[1].notification_type \in {"h24", "on_request", "as_ad_hours"}
  /\ results[1].rules[1].non_schengen_only
  /\ ~results[1].rules[1].schengen_only

\* A text matching both phrase families has given a rule, left unannotated
C8_WitnessBoth ==
  /\ op = "parse"
  /\ pc = "returned"
  /\ Found(SCHENGEN_PATTERN, 1)
  /\ Found(INTRA_SCHENGEN_PATTERN, 1)
  /\ Len(results[1].rules) > 0
  /\ ~results[1].rules[1].non_schengen_only
  /\ ~results[1].rules[1].schengen_only

\* C9: in every rule of every result returned by parse or parse_batch, after any
\* sequence of calls, at most one of schengen_only and non_schengen_only is true.
C9_SchengenExclusive ==
  \A i \in 1..Len(results) :
    \A k \in 1..Len(results[i].rules) :
      ~(results[i].rules[k].schengen_only /\ results[i].rules[k].non_schengen_only)

\* parse_batch has returned two results with an annotated rule each
C9_Witness ==
  /\ op = "parse_batch"
  /\ pc = "returned"
  /\ Len(results) = 2
  /\ \A i \in 1..2 : Len(results[i].rules) > 0 /\ results[i].rules[1].schengen_only

\* C10: parse of an empty or whitespace-only text returns rules = [] and
\* parse_warnings = ["Empty text"] exactly, with no second warning, whatever the
\* use_llm_fallback setting.
C10_EmptyText ==
  \A i \in 1..Len(results) :
    Blank(i) =>
      /\ results[i].outcome = "returned"
      /\ results[i].rules = <<>>
      /\ results[i].parse_warnings = <<"Empty text">>

\* A whitespace-only text has been parsed by a parser with the LLM fallback on
C10_Witness ==
  /\ op = "parse"
  /\ pc = "returned"
  /\ use_llm_fallback
  /\ Blank(1)
  /\ airports[1].text # <<>>
  /\ results[1].parse_warnings = <<"Empty text">>


\* The records that have been scored, with their scores: the results of parse
\* or parse_batch, or the record handed to from_parsed_rules
Inputs == IF op = "from_parsed_rules" THEN parsed ELSE results

\* No step of the regex extraction applies to the i-th text
NothingExtracted(i) ==
  /\ ~Found(H24_PATTERN, i)
  /\ ~Found(ON_REQUEST_PATTERN, i)
  /\ ~Found(AS_AD_HOURS_PATTERN, i)
  /\ ~Found(HOURS_PATTERN, i)
  /\ WeekdayMatches(i) = <<>>
  /\ ~Found(BUSINESS_DAY_PATTERN, i)

\* C11: for a non-blank text from which the regex steps extract no rule, parse
\* returns rules = [] with exactly one warning: "Could not parse notification
\* rules with regex patterns" when use_llm_fallback is false, "Could not parse
\* with regex or LLM" when it is true.  The score of such a result is
\* MODERATE / 0.5.
C11_UnparseableWarning ==
  \A i \in 1..Len(results) :
    (results[i].outcome = "returned" /\ ~Blank(i) /\ NothingExtracted(i)) =>
      /\ results[i].rules = <<>>
      /\ results[i].parse_warnings =
           IF use_llm_fallback THEN <<"Could not parse with regex or LLM">>
           ELSE <<"Could not parse notification rules with regex patterns">>
      /\ i <= Len(scores) => (scores[i].level = "moderate" /\ scores[i].score = 50)

\* A text without any notification phrase has been parsed with the LLM fallback
\* on, and scored
C11_Witness ==
  /\ op = "parse"
  /\ use_llm_fallback
  /\ Len(scores) = 1
  /\ ~Blank(1)
  /\ NothingExtracted(1)
  /\ results[1].parse_warnings = <<"Could not parse with regex or LLM">>
  /\ scores[1].level = "moderate"

\* The notification types of the rules of a record
TypesOf(record) == {record.rules[i].notification_type : i \in 1..Len(record.rules)}

\* The hours_notice values of the rules of a record
HoursOf(record) ==
  {record.rules[i].hours_notice[1] :
     i \in {j \in 1..Len(record.rules) : record.rules[j].hours_notice # None}}

\* The thresholds of the hours-based branch: <<level, score in hundredths>> for
\* the set of hours_notice values of a record
Threshold(hours) ==
  IF hours = {} THEN <<"high", 70>>
  ELSE LET most == CHOOSE h \in hours : \A k \in hours : k <= h
       IN IF most \in 0..2 THEN <<"low", 15>>
          ELSE IF most \in 3..12 THEN <<"low", 25>>
          ELSE IF most \in 13..24 THEN <<"moderate", 40>>
          ELSE IF most \in 25..48 THEN <<"high", 60>>
          ELSE IF most \in 49..72 THEN <<"high", 75>>
          ELSE <<"very_high", 90>>

\* The record is scored by the hours-based branch
HoursBranch(record) ==
  /\ record.rules # <<>>
  /\ "h24" \notin TypesOf(record)
  /\ TypesOf(record) # {"on_request"}
  /\ TypesOf(record) # {"as_ad_hours"}

\* Some rule of the record is anchored on Saturday or includes holidays
Weekend(record) ==
  \E i \in 1..Len(record.rules) :
    record.rules[i].weekday_start = Some(5) \/ record.rules[i].includes_holidays

\* C12: from_parsed_rules takes the first branch that applies: no rules gives
\* MODERATE / 0.5 with summary "Unable to parse notification rules"; else any
\* H24 rule gives NONE / 0.0, even when other rules carry hours notice; else all
\* rules ON_REQUEST gives LOW / 0.2; else all rules AS_AD_HOURS gives LOW / 0.15;
\* only otherwise is the hours-based branch used.
C12_FirstBranchWins ==
  \A k \in 1..Len(scores) :
    LET record == Inputs[k]
        score == scores[k]
    IN IF record.rules = <<>>
         THEN /\ score.level = "moderate" /\ score.score = 50
              /\ score.summary = <<"U","n","a","b","l","e"," ","t","o"," ","p","a","r","s","e"," ","n","o","t","i","f","i","c","a","t","i","o","n"," ","r","u","l","e","s">>
       ELSE IF "h24" \in TypesOf(record)
         THEN score.level = "none" /\ score.score = 0 /\ score.max_hours_notice = None
       ELSE IF TypesOf(record) = {"on_request"}
         THEN score.level = "low" /\ score.score = 20
       ELSE IF TypesOf(record) = {"as_ad_hours"}
         THEN score.level = "low" /\ score.score = 15
       ELSE /\ score.level = Threshold(HoursOf(record))[1]
            /\ score.score >= Threshold(HoursOf(record))[2]

\* A list with an H24 rule and a rule with hours notice has been scored NONE
C12_Witness ==
  /\ op = "from_parsed_rules"
  /\ Len(scores) = 1
  /\ "h24" \in TypesOf(parsed[1])
  /\ HoursOf(parsed[1]) # {}
  /\ scores[1].level = "none"
  /\ scores[1].score = 0

\* C13: in the hours-based branch the base (level, score) is a function of
\* max_hours_notice alone: absent gives HIGH / 0.7; 0..2 LOW / 0.15; 3..12
\* LOW / 0.25; 13..24 MODERATE / 0.4; 25..48 HIGH / 0.6; 49..72 HIGH / 0.75; 73
\* and above VERY_HIGH / 0.9, every upper bound inclusive.
C13_Thresholds ==
  \A k \in 1..Len(scores) :
    HoursBranch(Inputs[k]) =>
      /\ scores[k].level = Threshold(HoursOf(Inputs[k]))[1]
      /\ ~scores[k].has_weekend_rules =>
           scores[k].score = Threshold(HoursOf(Inputs[k]))[2]
      /\ scores[k].has_weekend_rules =>
           scores[k].score \in {Threshold(HoursOf(Inputs[k]))[2] + 10, UnitMax}
      /\ scores[k].max_hours_notice =
           IF HoursOf(Inputs[k]) = {} THEN None
           ELSE Some(CHOOSE h \in HoursOf(Inputs[k]) : \A j \in HoursOf(Inputs[k]) : j <= h)

\* A rule with 72 hours notice has been scored HIGH / 0.75
C13_Witness ==
  /\ op = "from_parsed_rules"
  /\ Len(scores) = 1
  /\ HoursOf(parsed[1]) = {72}
  /\ scores[1].level = "high"
  /\ scores[1].score = 75

\* A rule with 73 hours notice has been scored VERY_HIGH / 0.9
C13_Witness73 ==
  /\ op = "from_parsed_rules"
  /\ Len(scores) = 1
  /\ HoursOf(parsed[1]) = {73}
  /\ scores[1].level = "very_high"
  /\ scores[1].score = 90

\* C14: in the hours-based branch, when some rule has weekday_start = 5 or
\* includes_holidays, the score is min(1.0, base score + 0.1), the level is the
\* base level and has_weekend_rules is true; when no rule has (a rule anchored on
\* Sunday only, a range starting on Friday) the score is the base score and
\* has_weekend_rules is false.
C14_WeekendPenalty ==
  \A k \in 1..Len(scores) :
    HoursBranch(Inputs[k]) =>
      LET base == Threshold(HoursOf(Inputs[k]))
      IN /\ scores[k].level = base[1]
         /\ scores[k].has_weekend_rules = Weekend(Inputs[k])
         /\ scores[k].score = IF Weekend(Inputs[k])
                                THEN (IF base[2] + 10 > UnitMax THEN UnitMax ELSE base[2] + 10)
                                ELSE base[2]

\* The text "SAT-SUN, PPR 48 HR" of a weekend rule has been parsed and scored
\* HIGH / 0.7
C14_Witness ==
  /\ op = "parse"
  /\ Len(scores) = 1
  /\ Len(results[1].rules) = 1
  /\ results[1].rules[1].weekday_start = Some(5)
  /\ results[1].rules[1].hours_notice = Some(48)
  /\ scores[1].level = "high"
  /\ scores[1].score = 70
  /\ scores[1].has_weekend_rules

\* A rule anchored on Sunday only has been scored without the penalty
C14_WitnessSunday ==
  /\ op = "from_parsed_rules"
  /\ Len(scores) = 1
  /\ Len(parsed[1].rules) = 1
  /\ parsed[1].rules[1].weekday_start = Some(6)
  /\ HoursOf(parsed[1]) = {48}
  /\ scores[1].score = 60
  /\ ~scores[1].has_weekend_rules


\* The score before the weekend penalty
BaseOf(score) ==
  IF ~score.has_weekend_rules THEN score.score
  ELSE IF score.score = UnitMax THEN 90
  ELSE score.score - 10

\* The i-th result holds an HOURS rule and a BUSINESS_DAY rule, and its score is
\* the threshold value of its greatest hours notice
HoursAndBusinessDay(i) ==
  /\ "hours" \in TypesOf(results[i])
  /\ "business_day" \in TypesOf(results[i])
  /\ HoursOf(results[i]) # {}
  /\ i <= Len(scores) =>
       /\ scores[i].level = Threshold(HoursOf(results[i]))[1]
       /\ BaseOf(scores[i]) = Threshold(HoursOf(results[i]))[2]

\* HIGH / 0.7 is the base result of the hours-based branch only for a list
\* without hours notice
BusinessDayValueOnlyWithoutHours ==
  \A k \in 1..Len(scores) :
    (HoursBranch(Inputs[k]) /\ scores[k].level = "high" /\ BaseOf(scores[k]) = 70) =>
      HoursOf(Inputs[k]) = {}

C16_SchengenFlag ==
  \A i \in 1..Len(scores) :
    op # "from_parsed_rules" =>
      (scores[i].has_schengen_rules <=>
         \E k \in 1..Len(results[i].rules) :
           results[i].rules[k].schengen_only \/ results[i].rules[k].non_schengen_only)

\* C17 as stated: for every ParsedNotificationRules with at least one rule the
\* summary of the HassleScore equals parsed.get_summary(), whichever branch gave
\* the score.
C17_SummaryFromRenderer ==
  \A k \in 1..Len(scores) :
    Inputs[k].rules # <<>> => scores[k].summary = get_summary(Inputs[k])

\* C18: from_parsed_rules returns a HassleScore for every ParsedNotificationRules
\* (any rule list, the empty list and mixed rule types included) and never
\* fails; the score lies in [0, 1]; the input record is left unchanged.
C18_ScorerTotal ==
  /\ [](\A k \in 1..Len(scores) :
          /\ scores[k].outcome = "returned"
          /\ scores[k].score \in 0..UnitMax
          /\ scores[k].level \in {"none", "low", "moderate", "high", "very_high"}
          /\ scores[k].icao = Inputs[k].icao)
  /\ [](op = "from_parsed_rules" => pc # "raised")
  /\ [][Len(scores') > Len(scores) => (parsed' = parsed /\ results' = results)]_vars

\* A list of two weekend rules with more than 72 hours notice has been scored
\* 1.0
C18_Witness ==
  /\ op = "from_parsed_rules"
  /\ pc = "returned"
  /\ Len(parsed[1].rules) = 2
  /\ \A i \in 1..2 : parsed[1].rules[i].weekday_start = Some(5)
  /\ HoursOf(parsed[1]) = {73}
  /\ scores[1].score = UnitMax

\* A list of mixed rule types has been scored
C18_WitnessMixed ==
  /\ op = "from_parsed_rules"
  /\ pc = "returned"
  /\ TypesOf(parsed[1]) = {"as_ad_hours", "business_day"}
  /\ Len(scores) = 1

C20_BatchIsMap ==
  (op = "parse_batch" /\ pc # "call") =>
    /\ Len(results) = Len(airports)
    /\ \A i \in 1..Len(airports) :
         results[i] = parse(use_llm_fallback, airports[i].icao, airports[i].text, std_field_id)

\* parse_batch has returned for an empty text followed by a text with a rule
C20_Witness ==
  /\ op = "parse_batch"
  /\ pc = "returned"
  /\ Len(airports) = 2
  /\ airports[1].text = <<>>
  /\ results[1].rules = <<>>
  /\ results[2].rules # <<>>
  /\ results[2].raw_text = airports[2].text

\* ------------------------------------------------------------------------
\* The record parse returns: raw_text, business-day rules, separators
\* ------------------------------------------------------------------------

\* C21 as stated: for every input text the raw_text of the result of parse
\* equals the input text character for character, leading and trailing
\* whitespace included.
C21_RawTextVerbatim ==
  \A i \in 1..Len(results) :
    results[i].outcome = "returned" => results[i].raw_text = airports[i].text

\* "last working day" or "last business day", with the optional "before HHMM"
LastDayPhrase ==
  Compile(
    Cat(<<Lit(<<"l","a","s","t">>), Ws1, Alt(<<Lit(<<"w","o","r","k","i","n","g">>), Lit(<<"b","u","s","i","n","e","s","s">>)>>), Ws1, Lit(<<"d","a","y">>),
          Opt(Cat(<<Ws1, Lit(<<"b","e","f","o","r","e">>), Ws1,
                    Grp(1, Cat(<<Set(Digit), Set(Digit), Set(Digit), Set(Digit)>>))>>))>>),
    TRUE)

\* The occurrences of the phrase in the i-th text
PhraseOccurrences(i) == finditer(LastDayPhrase, Stripped(i))

\* The business-day rules of the i-th result
BusinessDayRules(i) ==
  SelectSeq(results[i].rules, LAMBDA r : r.notification_type = "business_day")

\* C22 as stated: in the layered branch each occurrence of "last working day" or
\* "last business day" yields exactly one BUSINESS_DAY rule with
\* business_day_offset = -1, rule_type PPR and confidence 0.75, whose
\* specific_time is the HHMM of "before HHMM" when that part is present and null
\* when the phrase stands without it, whether or not anything follows the phrase;
\* a result with only business-day rules has max_hours_notice = null and scores
\* HIGH / 0.7.
C22_BusinessDayRule ==
  \A i \in 1..Len(results) :
    (results[i].outcome = "returned" /\ Layered(i)) =>
      /\ Len(BusinessDayRules(i)) = Len(PhraseOccurrences(i))
      /\ \A k \in 1..Len(BusinessDayRules(i)) :
           /\ BusinessDayRules(i)[k].rule_type = "ppr"
           /\ BusinessDayRules(i)[k].business_day_offset = Some(-1)
           /\ BusinessDayRules(i)[k].confidence = 75
           /\ k <= Len(PhraseOccurrences(i)) =>
                BusinessDayRules(i)[k].specific_time =
                  group(PhraseOccurrences(i)[k], Stripped(i), 1)
      /\ (results[i].rules # <<>> /\ BusinessDayRules(i) = results[i].rules) =>
           /\ max_hours_notice(results[i]) = None
           /\ i <= Len(scores) => (scores[i].level = "high" /\ scores[i].score = 70)

\* A day token or day range followed by an hours phrase, the ',' or ':' between
\* them optional
DayHoursPhrase ==
  Compile(
    Cat(<<Grp(1, Alt(DayNames \o DayCompounds \o <<Hol>>)),
          Opt(Cat(<<Ws0, Set(Dash), Ws0, Grp(2, Alt(DayNames \o <<Hol>>))>>)),
          Ws0, Opt(Set({",", ":"})), Ws0,
          Opt(PprPn), Ws0, Opt(Cat(<<Lit(<<"M","N","M">>), Ws1>>)), Num(3), Ws0, HrUnit>>),
    TRUE)

DayHoursPhrases(i) == finditer(DayHoursPhrase, Stripped(i))

\* The rule of C7 for the k-th day-and-hours phrase of the i-th text
PhraseRule(i, k) ==
  ExpectedWeekdayRule(group(DayHoursPhrases(i)[k], Stripped(i), 1)[1],
                      group(DayHoursPhrases(i)[k], Stripped(i), 2),
                      int(group(DayHoursPhrases(i)[k], Stripped(i), 3)[1]),
                      group0(DayHoursPhrases(i)[k], Stripped(i)))

\* C23 as stated: a day token or day range followed by an hours phrase gives a
\* weekday-specific rule whether or not a ',' or ':' stands between them:
\* "SAT-SUN PPR 48 HR" gives the weekday rule (weekday_start 5, weekday_end 6,
\* hours_notice 48) and the weekend penalty of "SAT-SUN, PPR 48 HR".
C23_SeparatorOptional ==
  \A i \in 1..Len(results) :
    (results[i].outcome = "returned" /\ Layered(i)) =>
      /\ Len(WeekdayRules(i)) = Len(DayHoursPhrases(i))
      /\ \A k \in 1..Len(DayHoursPhrases(i)) :
           k <= Len(WeekdayRules(i)) =>
             /\ WeekdayRules(i)[k].weekday_start = PhraseRule(i, k).weekday_start
             /\ WeekdayRules(i)[k].weekday_end = PhraseRule(i, k).weekday_end
             /\ WeekdayRules(i)[k].hours_notice = PhraseRule(i, k).hours_notice
      /\ (i <= Len(scores)
            /\ \E k \in 1..Len(DayHoursPhrases(i)) :
                 PhraseRule(i, k).weekday_start = Some(5) \/ PhraseRule(i, k).includes_holidays) =>
           /\ scores[i].has_weekend_rules
           /\ scores[i].score = weekend_penalty(base_score(max_hours_notice(results[i]))[2])

\* C24 as stated: the "not also hours" guard keeps "O/R, 24HR for customs" from
\* being classified as pure on-request: parse of that text does not return a
\* single ON_REQUEST rule.
C24_GuardedOnRequest ==
  \A i \in 1..Len(results) :
    (results[i].outcome = "returned" /\ airports[i].text = <<"O","/","R",","," ","2","4","H","R"," ","f","o","r"," ","c","u","s","t","o","m","s">>) =>
      ~(Len(results[i].rules) = 1 /\ results[i].rules[1].notification_type = "on_request")

\* The word "Schengen", in any case
SchengenWord == Compile(Lit(<<"s","c","h","e","n","g","e","n">>), TRUE)

\* The i-th text refers to Schengen, and each time within a phrase of the
\* extra / non / outside Schengen family
OnlyNonSchengenPhrases(i) ==
  /\ finditer(SchengenWord, Stripped(i)) # <<>>
  /\ \A w \in 1..Len(finditer(SchengenWord, Stripped(i))) :
       \E m \in 1..Len(finditer(SCHENGEN_PATTERN, Stripped(i))) :
         /\ finditer(SCHENGEN_PATTERN, Stripped(i))[m].start
              < finditer(SchengenWord, Stripped(i))[w].start
         /\ finditer(SchengenWord, Stripped(i))[w].end
              = finditer(SCHENGEN_PATTERN, Stripped(i))[m].end

\* C25 as stated: a text whose only Schengen reference is a phrase of the
\* extra / non / outside Schengen family, "non-Schengen flights" included, gets
\* non_schengen_only = true and schengen_only = false on every extracted rule.
C25_NonSchengenFamily ==
  \A i \in 1..Len(results) :
    (results[i].outcome = "returned" /\ OnlyNonSchengenPhrases(i)) =>
      \A k \in 1..Len(results[i].rules) :
        results[i].rules[k].non_schengen_only /\ ~results[i].rules[k].schengen_only

\* ------------------------------------------------------------------------
\* Invariants of the parser's output and of the scores
\* ------------------------------------------------------------------------

\* C26: in every result returned by parse, parse_warnings is non-empty if and
\* only if rules is empty, and it then holds exactly one warning; a result with
\* at least one rule carries no warning.
C26_WarningIffNoRules ==
  \A i \in 1..Len(results) :
    results[i].outcome = "returned" =>
      /\ results[i].parse_warnings # <<>> <=> results[i].rules = <<>>
      /\ results[i].rules = <<>> => Len(results[i].parse_warnings) = 1
      /\ results[i].rules # <<>> => results[i].parse_warnings = <<>>

\* parse_batch has returned a result without rules, with its warning, and a
\* result with a rule and no warning
C26_Witness ==
  /\ op = "parse_batch"
  /\ pc = "returned"
  /\ Len(results) = 2
  /\ results[1].rules = <<>>
  /\ results[1].parse_warnings = <<"Empty text">>
  /\ results[2].rules # <<>>
  /\ results[2].parse_warnings = <<>>

\* A non-blank text that no pattern matches has been parsed with the LLM
\* fallback on and carries the one warning of the fallback
C26_WitnessUnparseable ==
  /\ op = "parse"
  /\ pc = "returned"
  /\ use_llm_fallback
  /\ ~Blank(1)
  /\ results[1].rules = <<>>
  /\ Len(results[1].parse_warnings) = 1
  /\ results[1].parse_warnings # <<"Empty text">>

ShortCircuitTypes == {"h24", "on_request", "as_ad_hours"}

\* C27: in every result returned by parse a rule of notification_type H24,
\* ON_REQUEST or AS_AD_HOURS is the only rule of the list and has no
\* hours_notice: short-circuit rules are never mixed with HOURS or BUSINESS_DAY
\* rules, so is_h24 and is_on_request each imply exactly one rule.
C27_ShortCircuitAlone ==
  \A i \in 1..Len(results) :
    results[i].outcome = "returned" =>
      /\ \A k \in 1..Len(results[i].rules) :
           results[i].rules[k].notification_type \in ShortCircuitTypes =>
             /\ Len(results[i].rules) = 1
             /\ results[i].rules[k].hours_notice = None
      /\ is_h24(results[i]) => Len(results[i].rules) = 1
      /\ is_on_request(results[i]) => Len(results[i].rules) = 1

\* A text with the H24 token, a notice period and a last-business-day phrase
\* has given the H24 rule alone
C27_Witness ==
  /\ op = "parse"
  /\ pc = "returned"
  /\ Found(H24_PATTERN, 1)
  /\ Found(HOURS_PATTERN, 1)
  /\ Found(BUSINESS_DAY_PATTERN, 1)
  /\ is_h24(results[1])
  /\ Len(results[1].rules) = 1

\* An on-request text has given the ON_REQUEST rule alone, without hours_notice
C27_WitnessOnRequest ==
  /\ op = "parse"
  /\ pc = "returned"
  /\ is_on_request(results[1])
  /\ Found(BUSINESS_DAY_PATTERN, 1)
  /\ Len(results[1].rules) = 1
  /\ results[1].rules[1].hours_notice = None

\* NONE < LOW < MODERATE < HIGH < VERY_HIGH
LevelOrder == <<"none", "low", "moderate", "high", "very_high">>

LevelRank(level) == CHOOSE n \in 1..Len(LevelOrder) : LevelOrder[n] = level

\* The (level, score) pairs from_parsed_rules gives on the records of at most one
\* rule: every score a branch gives without the weekend penalty is among them
RecordScores ==
  {<<from_parsed_rules(record).level, from_parsed_rules(record).score>> :
     record \in {short \in Records : Len(short.rules) <= 1}}

\* C28: score and level never disagree as ranking keys: of two HassleScores
\* from_parsed_rules produces, the one with the strictly higher level has the
\* strictly higher score; the weekend penalty never lifts a score into or past
\* the scores of the next level.  Every score produced is compared with the
\* scores of the one-rule records, in both directions, and with the other
\* scores of its batch.
C28_LevelAndScoreAgree ==
  \A k \in 1..Len(scores) :
    /\ \A other \in RecordScores :
         /\ LevelRank(other[1]) > LevelRank(scores[k].level) => other[2] > scores[k].score
         /\ LevelRank(other[1]) < LevelRank(scores[k].level) => other[2] < scores[k].score
    /\ \A j \in 1..Len(scores) :
         LevelRank(scores[j].level) > LevelRank(scores[k].level) =>
           scores[j].score > scores[k].score

\* A record of level HIGH with 72 hours notice and a weekend rule has been
\* scored 0.85, next to the 0.9 of VERY_HIGH
C28_Witness ==
  /\ op = "from_parsed_rules"
  /\ pc = "returned"
  /\ scores[1].has_weekend_rules
  /\ scores[1].level = "high"
  /\ scores[1].score = 85
  /\ <<"very_high", 90>> \in RecordScores

\* Two texts of one batch have been scored at different levels
C28_WitnessBatch ==
  /\ op = "parse_batch"
  /\ Len(scores) = 2
  /\ LevelRank(scores[1].level) < LevelRank(scores[2].level)
  /\ scores[1].score < scores[2].score

\* ------------------------------------------------------------------------
\* The agent graph and the priority engine
\* ------------------------------------------------------------------------

NodeOrder == <<"planner_node", "tool_node", "formatter_node">>

\* The nodes that have run, in order
NodesRun == SelectSeq(invoked, LAMBDA c : c \in {NodeOrder[n] : n \in 1..Len(NodeOrder)})

\* C29: the nodes of the agent graph run once each in the order planner, tool,
\* formatter; if the planner raises, the tool runner and the formatter chain are
\* never invoked and the final state has error set and the final_answer
\* "I encountered an error: <error>. Please try again.".
C29_PlannerFailure ==
  /\ Len(NodesRun) <= Len(NodeOrder)
  /\ NodesRun = SubSeq(NodeOrder, 1, Len(NodesRun))
  /\ node = "END" /\ invoked # <<>> => NodesRun = NodeOrder
  /\ (injected # EmptyDict /\ injected.planner.outcome = "raises") =>
       /\ \A c \in 1..Len(invoked) :
            invoked[c] \notin {"tool_runner.run", "formatter_chain.invoke"}
       /\ node = "END" =>
            /\ "error" \in DOMAIN state
            /\ state.error # <<>>
            /\ state.final_answer =
                 <<"I"," ","e","n","c","o","u","n","t","e","r","e","d"," ","a","n"," ","e","r","r","o","r",":"," ">> \o state.error \o <<"."," ","P","l","e","a","s","e"," ","t","r","y"," ","a","g","a","i","n",".">>

\* The planner has raised with a message and the graph has run to its end
C29_Witness ==
  /\ node = "END"
  /\ injected.planner.outcome = "raises"
  /\ injected.planner.message # <<>>
  /\ injected.tool_runner.outcome = "returns"
  /\ injected.formatter_chain.outcome = "returns"
  /\ state.error = injected.planner.message
  /\ invoked = <<"planner_node", "planner.invoke", "tool_node", "formatter_node">>

\* The planner has raised an exception without a message: the tool node reports
\* the missing plan
C29_WitnessNoMessage ==
  /\ node = "END"
  /\ injected.planner.outcome = "raises"
  /\ injected.planner.message = <<>>
  /\ state.error = <<"N","o"," ","p","l","a","n"," ","a","v","a","i","l","a","b","l","e">>
  /\ NodesRun = NodeOrder

\* ------------------------------------------------------------------------
\* C30
\* ------------------------------------------------------------------------

\* The lists the claim allows apply to return for its arguments: the first
\* max_results airports in the order the cost_optimized strategy computes,
\* whatever enrichment storage the strategy is given
BestFirst(call) ==
  {top_airports(cost_optimized_score(call.airports, call.context, tool_context),
                call.max_results) :
     tool_context \in {None} \cup {Some([enrichment_storage |-> s]) : s \in Storages}}

\* C30: PriorityEngine.apply on a non-empty airport list returns at most
\* max_results airports, ordered best first by ascending (priority_level,
\* score) as computed by the selected strategy, cost_optimized being used by
\* default and for an unknown strategy name; on an empty list it returns the
\* empty list.
C30_ApplyReturnsBestFirst ==
  applied # <<>> =>
    /\ returned.outcome = "returned"
    /\ applied.airports = <<>> => returned.value = <<>>
    /\ applied.airports # <<>> =>
         /\ Len(returned.value) <= applied.max_results
         /\ returned.value \in BestFirst(applied)

\* apply was called with a non-empty list and raised
C30_Raised ==
  /\ applied # <<>>
  /\ applied.airports # <<>>
  /\ returned.outcome = "raised"

\* apply was called with the empty list and returned it
C30_EmptyList ==
  /\ applied # <<>>
  /\ applied.airports = <<>>
  /\ returned = [outcome |-> "returned", value |-> <<>>]

====
